---- MODULE Spec2Model ----
(***************************************************************************)
(* Model of the colmap ML model lifecycle and registry:                    *)
(*   src/src/colmap/ml/ml_manager.{h,cc}        MLManager (the registry)   *)
(*   src/src/colmap/ml/superpoint_detector.*    SuperPointDetector         *)
(*   src/src/colmap/ml/disk_detector.*          DISKDetector               *)
(*   src/src/colmap/ml/loftr_matcher.*          LoFTRMatcher               *)
(*   src/src/colmap/ml/superglue_matcher.*      SuperGlueMatcher           *)
(*                                                                         *)
(* Conventions.  A float is a fixed-point integer counting thousandths     *)
(* (0.005f is 5, 4.0f is 4000).  A std::string that the code parses is a   *)
(* sequence of one-character strings (<<"5","0">> is "50"), so that        *)
(* std::stoi / std::stof are computed and can fail.  A return value is a   *)
(* string: "true", "false", "void", "throw" (an exception left the call),  *)
(* "nullptr", or the identity of a model instance.                         *)
(***************************************************************************)
EXTENDS Integers, Sequences, FiniteSets, TLC

VARIABLES
  models,             \* the heap: model instance -> its member fields
  models_,            \* MLManager::models_, the entries of the name -> model table
  model_type_map_,    \* MLManager::model_type_map_, the entries of the kind -> name table
  default_device_,    \* MLManager::default_device_
  cache_directory_,   \* MLManager::cache_directory_
  download_enabled_,  \* MLManager::download_enabled_
  last,               \* the most recent call: what was called, on what, what it returned
  lastLoadTrue,     \* per instance: was its most recent Load/Unload call a Load that returned true?
  lastOfKind,         \* per kind: the model of the most recent successful RegisterModel
  threads             \* per calling thread: where it is inside a call that others interleave with

vars == <<models, models_, model_type_map_, default_device_, cache_directory_,
          download_enabled_, last, lastLoadTrue, lastOfKind, threads>>

regVars == <<models_, model_type_map_, default_device_, cache_directory_,
             download_enabled_>>

-----------------------------------------------------------------------------
(* Enumerations of ml_manager.h *)

MLModelType == {"SUPERPONT_DETECTOR", "SUPERGLUE_MATCHER", "LOFTR_MATCHER",
                "DISK_DETECTOR", "R2D2_DETECTOR", "MVSNET_MVS", "NERF_RENDERER",
                "INSTANT_NGP"}

MLBackend == {"PYTORCH", "TENSORFLOW", "ONNX", "OPENVINO"}

MLDevice == {"CPU", "CUDA", "OPENCL", "VULKAN"}

nullptr == "nullptr"

\* The element of a one-element set.  {F(v) : v \in {e}} evaluates e once,
\* where F(e) would evaluate it at every use of its parameter.
The(S) == CHOOSE x \in S : TRUE

-----------------------------------------------------------------------------
(* std::stoi and std::stof, as the parameter loop of Load calls them *)

IsSpace(c) == c \in {" ", "\t", "\n"}

IsDigit(c) == c \in {"0", "1", "2", "3", "4", "5", "6", "7", "8", "9"}

DigitValue(c) ==
  CASE c = "0" -> 0 [] c = "1" -> 1 [] c = "2" -> 2 [] c = "3" -> 3
    [] c = "4" -> 4 [] c = "5" -> 5 [] c = "6" -> 6 [] c = "7" -> 7
    [] c = "8" -> 8 [] c = "9" -> 9

\* INT_MAX of a 32-bit int: std::stoi throws std::out_of_range beyond it (a
\* magnitude above INT_MAX counts as out of range for either sign).
IntMax == 2147483647

\* First position at or after i that holds no white space.
RECURSIVE SkipSpace(_, _)
SkipSpace(s, i) ==
  IF i <= Len(s) /\ IsSpace(s[i]) THEN SkipSpace(s, i + 1) ELSE i

\* How many digits s holds from position i on, without a gap.
RECURSIVE CountDigits(_, _)
CountDigits(s, i) ==
  IF i <= Len(s) /\ IsDigit(s[i]) THEN 1 + CountDigits(s, i + 1) ELSE 0

\* The decimal value of the n digits of s that start at position i, or -1
\* when it exceeds INT_MAX.
RECURSIVE DigitsValue(_, _, _)
DigitsValue(s, i, n) ==
  IF n = 0 THEN 0
  ELSE The({IF prev = -1 \/ prev > (IntMax - d) \div 10 THEN -1 ELSE prev * 10 + d :
            prev \in {DigitsValue(s, i, n - 1)}, d \in {DigitValue(s[i + n - 1])}})

\* Where the digits start: after the white space and an optional sign.
DigitsStart(value) ==
  LET i == SkipSpace(value, 1)
  IN  IF i <= Len(value) /\ value[i] \in {"-", "+"} THEN i + 1 ELSE i

IsNegative(value) ==
  LET i == SkipSpace(value, 1)
  IN  i <= Len(value) /\ value[i] = "-"

\* std::stoi(value): leading white space, an optional sign, then digits; what
\* follows the digits is ignored.  No digit: std::invalid_argument; a value
\* outside int: std::out_of_range.  Either way the call throws.
StoI(value) ==
  LET j == DigitsStart(value)
      n == CountDigits(value, j)
      d == DigitsValue(value, j, n)
  IN  IF n = 0 THEN [threw |-> TRUE, val |-> 0]
      ELSE IF d = -1 THEN [threw |-> TRUE, val |-> 0]
      ELSE [threw |-> FALSE, val |-> IF IsNegative(value) THEN 0 - d ELSE d]

\* Thousandths held by the first three of the n fraction digits starting at i.
FracMilli(s, i, n) ==
  LET D(k) == IF k < n THEN DigitValue(s[i + k]) ELSE 0
  IN  D(0) * 100 + D(1) * 10 + D(2)

\* std::stof(value) for a decimal literal: white space, sign, digits, an
\* optional point and fraction; std::invalid_argument when neither an integer
\* nor a fraction digit is there.  The result is in thousandths; an integer
\* part beyond the numbers represented here saturates.
StoF(value) ==
  LET j    == DigitsStart(value)
      n    == CountDigits(value, j)
      dot  == j + n <= Len(value) /\ value[j + n] = "."
      nf   == IF dot THEN CountDigits(value, j + n + 1) ELSE 0
      d    == DigitsValue(value, j, n)
      mag  == IF d = -1 \/ d >= IntMax \div 1000 THEN IntMax
              ELSE d * 1000 + FracMilli(value, j + n + 1, nf)
  IN  IF n = 0 /\ nf = 0 THEN [threw |-> TRUE, val |-> 0]
      ELSE [threw |-> FALSE, val |-> IF IsNegative(value) THEN 0 - mag ELSE mag]

-----------------------------------------------------------------------------
(* Configuration records and freshly constructed instances *)

\* MLModelConfig{} of ml_manager.h with the fields Load reads.  parameters is
\* the unordered_map in its iteration order: a sequence of <<key, value>>.
MLModelConfig(backend, device, parameters) ==
  [backend |-> backend, device |-> device, parameters |-> parameters]

SuperPointConfig ==
  [max_keypoints |-> 1024, keypoint_threshold |-> 5, remove_borders |-> TRUE,
   border_margin |-> 4, use_nms |-> TRUE, nms_radius |-> 4000,
   compute_descriptors |-> TRUE, descriptor_dim |-> 256,
   descriptor_threshold |-> 100]

DISKConfig ==
  [max_keypoints |-> 2048, keypoint_threshold |-> 5, remove_borders |-> TRUE,
   border_margin |-> 4, use_nms |-> TRUE, nms_radius |-> 4000,
   compute_descriptors |-> TRUE, descriptor_dim |-> 128,
   descriptor_threshold |-> 100, soft_threshold |-> 100]

LoFTRConfig ==
  [match_threshold |-> 200, max_keypoints |-> 2048, use_mutual_check |-> TRUE,
   mutual_threshold |-> 800, coarse_threshold |-> 200, fine_threshold |-> 100]

SuperGlueConfig ==
  [match_threshold |-> 200, max_keypoints |-> 1024, use_mutual_check |-> TRUE,
   mutual_threshold |-> 800]

\* The member initialisers shared by the four classes.
NewModel(class, config) ==
  [class |-> class, loaded_ |-> FALSE, backend_ |-> "PYTORCH", device_ |-> "CPU",
   config_ |-> config, model_ptr_ |-> nullptr]

SuperPointDetector == NewModel("SuperPointDetector", SuperPointConfig)

DISKDetector == NewModel("DISKDetector", DISKConfig)

LoFTRMatcher == NewModel("LoFTRMatcher", LoFTRConfig)

\* The constructor assigns max_keypoints and match_threshold their defaults again.
SuperGlueMatcher ==
  NewModel("SuperGlueMatcher",
           [SuperGlueConfig EXCEPT !.max_keypoints = 1024, !.match_threshold = 200])

-----------------------------------------------------------------------------
(* Load, IsLoaded, Unload of each class.  Load yields the instance after the *)
(* call, what the call returned, and how often it ran InitializeModel.       *)

\* The outcome of one parsed parameter that no branch of the loop recognises.
Ignored == [threw |-> FALSE, val |-> 0]

SuperPointDetector_InitializeModel(self) ==
  [self |-> [self EXCEPT !.model_ptr_ = "0x12345678"], success |-> TRUE]

RECURSIVE SuperPointDetector_StoreParameters(_, _)
SuperPointDetector_StoreParameters(config_, parameters) ==
  IF parameters = <<>> THEN [threw |-> FALSE, config_ |-> config_]
  ELSE
    LET key   == Head(parameters)[1]
        value == Head(parameters)[2]
        p     == IF key = "max_keypoints" THEN StoI(value)
                 ELSE IF key \in {"keypoint_threshold", "nms_radius"} THEN StoF(value)
                 ELSE Ignored
        next  == IF key = "max_keypoints" THEN [config_ EXCEPT !.max_keypoints = p.val]
                 ELSE IF key = "keypoint_threshold"
                   THEN [config_ EXCEPT !.keypoint_threshold = p.val]
                 ELSE IF key = "nms_radius" THEN [config_ EXCEPT !.nms_radius = p.val]
                 ELSE config_
    IN  IF p.threw THEN [threw |-> TRUE, config_ |-> config_]
        ELSE The({SuperPointDetector_StoreParameters(c, t) : c \in {next}, t \in {Tail(parameters)}})

SuperPointDetector_Load(self, config) ==
  IF self.loaded_ THEN [self |-> self, ret |-> "true", inits |-> 0]
  ELSE
    LET s1   == [self EXCEPT !.backend_ = config.backend, !.device_ = config.device]
        p    == SuperPointDetector_StoreParameters(s1.config_, config.parameters)
        s2   == [s1 EXCEPT !.config_ = p.config_]
        init == SuperPointDetector_InitializeModel(s2)
    IN  IF p.threw THEN [self |-> s2, ret |-> "throw", inits |-> 0]
        ELSE IF init.success
          THEN [self |-> [init.self EXCEPT !.loaded_ = TRUE], ret |-> "true", inits |-> 1]
        ELSE [self |-> init.self, ret |-> "false", inits |-> 1]

SuperPointDetector_IsLoaded(self) == self.loaded_

\* An Unload that releases the handle and forgets to clear the flag.
SuperPointDetector_Unload_KeepsFlag(self) ==
  IF ~self.loaded_ THEN self
  ELSE [self EXCEPT !.model_ptr_ = nullptr]

\* An Unload that clears the flag and keeps the handle.
SuperPointDetector_Unload_KeepsHandle(self) ==
  IF ~self.loaded_ THEN self
  ELSE [self EXCEPT !.loaded_ = FALSE]

SuperPointDetector_Unload(self) ==
  IF ~self.loaded_ THEN self
  ELSE [self EXCEPT !.model_ptr_ = nullptr, !.loaded_ = FALSE]

DISKDetector_InitializeModel(self) ==
  [self |-> [self EXCEPT !.model_ptr_ = "0x12345678"], success |-> TRUE]

RECURSIVE DISKDetector_StoreParameters(_, _)
DISKDetector_StoreParameters(config_, parameters) ==
  IF parameters = <<>> THEN [threw |-> FALSE, config_ |-> config_]
  ELSE
    LET key   == Head(parameters)[1]
        value == Head(parameters)[2]
        p     == IF key \in {"max_keypoints", "descriptor_dim"} THEN StoI(value)
                 ELSE IF key = "keypoint_threshold" THEN StoF(value)
                 ELSE Ignored
        next  == IF key = "max_keypoints" THEN [config_ EXCEPT !.max_keypoints = p.val]
                 ELSE IF key = "keypoint_threshold"
                   THEN [config_ EXCEPT !.keypoint_threshold = p.val]
                 ELSE IF key = "descriptor_dim"
                   THEN [config_ EXCEPT !.descriptor_dim = p.val]
                 ELSE config_
    IN  IF p.threw THEN [threw |-> TRUE, config_ |-> config_]
        ELSE The({DISKDetector_StoreParameters(c, t) : c \in {next}, t \in {Tail(parameters)}})

DISKDetector_Load(self, config) ==
  IF self.loaded_ THEN [self |-> self, ret |-> "true", inits |-> 0]
  ELSE
    LET s1   == [self EXCEPT !.backend_ = config.backend, !.device_ = config.device]
        p    == DISKDetector_StoreParameters(s1.config_, config.parameters)
        s2   == [s1 EXCEPT !.config_ = p.config_]
        init == DISKDetector_InitializeModel(s2)
    IN  IF p.threw THEN [self |-> s2, ret |-> "throw", inits |-> 0]
        ELSE IF init.success
          THEN [self |-> [init.self EXCEPT !.loaded_ = TRUE], ret |-> "true", inits |-> 1]
        ELSE [self |-> init.self, ret |-> "false", inits |-> 1]

DISKDetector_IsLoaded(self) == self.loaded_

DISKDetector_Unload(self) ==
  IF ~self.loaded_ THEN self
  ELSE [self EXCEPT !.model_ptr_ = nullptr, !.loaded_ = FALSE]

LoFTRMatcher_InitializeModel(self) ==
  [self |-> [self EXCEPT !.model_ptr_ = "0x12345678"], success |-> TRUE]

RECURSIVE LoFTRMatcher_StoreParameters(_, _)
LoFTRMatcher_StoreParameters(config_, parameters) ==
  IF parameters = <<>> THEN [threw |-> FALSE, config_ |-> config_]
  ELSE
    LET key   == Head(parameters)[1]
        value == Head(parameters)[2]
        p     == IF key = "max_keypoints" THEN StoI(value)
                 ELSE IF key \in {"match_threshold", "coarse_threshold", "fine_threshold"}
                   THEN StoF(value)
                 ELSE Ignored
        next  == IF key = "max_keypoints" THEN [config_ EXCEPT !.max_keypoints = p.val]
                 ELSE IF key = "match_threshold"
                   THEN [config_ EXCEPT !.match_threshold = p.val]
                 ELSE IF key = "coarse_threshold"
                   THEN [config_ EXCEPT !.coarse_threshold = p.val]
                 ELSE IF key = "fine_threshold"
                   THEN [config_ EXCEPT !.fine_threshold = p.val]
                 ELSE config_
    IN  IF p.threw THEN [threw |-> TRUE, config_ |-> config_]
        ELSE The({LoFTRMatcher_StoreParameters(c, t) : c \in {next}, t \in {Tail(parameters)}})

LoFTRMatcher_Load(self, config) ==
  IF self.loaded_ THEN [self |-> self, ret |-> "true", inits |-> 0]
  ELSE
    LET s1   == [self EXCEPT !.backend_ = config.backend, !.device_ = config.device]
        p    == LoFTRMatcher_StoreParameters(s1.config_, config.parameters)
        s2   == [s1 EXCEPT !.config_ = p.config_]
        init == LoFTRMatcher_InitializeModel(s2)
    IN  IF p.threw THEN [self |-> s2, ret |-> "throw", inits |-> 0]
        ELSE IF init.success
          THEN [self |-> [init.self EXCEPT !.loaded_ = TRUE], ret |-> "true", inits |-> 1]
        ELSE [self |-> init.self, ret |-> "false", inits |-> 1]

LoFTRMatcher_IsLoaded(self) == self.loaded_

LoFTRMatcher_Unload(self) ==
  IF ~self.loaded_ THEN self
  ELSE [self EXCEPT !.model_ptr_ = nullptr, !.loaded_ = FALSE]

\* SuperGlueMatcher::Load reads nothing of config and never runs InitializeModel.
SuperGlueMatcher_Load(self, config) ==
  IF self.loaded_ THEN [self |-> self, ret |-> "true", inits |-> 0]
  ELSE [self |-> [self EXCEPT !.loaded_ = TRUE], ret |-> "true", inits |-> 0]

\* Declared in superglue_matcher.h; the definition is not among the sources.
SuperGlueMatcher_IsLoaded(self) == self.loaded_

SuperGlueMatcher_Unload(self) ==
  IF ~self.loaded_ THEN self
  ELSE [self EXCEPT !.loaded_ = FALSE]

-----------------------------------------------------------------------------
(* The MLModel interface: virtual dispatch on the dynamic class *)

Load(self, config) ==
  CASE self.class = "SuperPointDetector" -> SuperPointDetector_Load(self, config)
    [] self.class = "DISKDetector"       -> DISKDetector_Load(self, config)
    [] self.class = "LoFTRMatcher"       -> LoFTRMatcher_Load(self, config)
    [] self.class = "SuperGlueMatcher"   -> SuperGlueMatcher_Load(self, config)

IsLoaded(self) ==
  CASE self.class = "SuperPointDetector" -> SuperPointDetector_IsLoaded(self)
    [] self.class = "DISKDetector"       -> DISKDetector_IsLoaded(self)
    [] self.class = "LoFTRMatcher"       -> LoFTRMatcher_IsLoaded(self)
    [] self.class = "SuperGlueMatcher"   -> SuperGlueMatcher_IsLoaded(self)

Unload(self) ==
  CASE self.class = "SuperPointDetector" -> SuperPointDetector_Unload(self)
    [] self.class = "DISKDetector"       -> DISKDetector_Unload(self)
    [] self.class = "LoFTRMatcher"       -> LoFTRMatcher_Unload(self)
    [] self.class = "SuperGlueMatcher"   -> SuperGlueMatcher_Unload(self)

GetType(self) ==
  CASE self.class = "SuperPointDetector" -> "SUPERPONT_DETECTOR"
    [] self.class = "DISKDetector"       -> "DISK_DETECTOR"
    [] self.class = "LoFTRMatcher"       -> "LOFTR_MATCHER"
    [] self.class = "SuperGlueMatcher"   -> "SUPERGLUE_MATCHER"

GetBackend(self) == self.backend_

GetDevice(self) == self.device_

GetConfig(self) == self.config_

-----------------------------------------------------------------------------
(* Results, and the helpers of Detect.  A keypoint is [x, y] in whole pixels *)
(* (the affine shape is always the identity).  What the code draws with      *)
(* rand(), the clock, and a failing allocation are inputs `env` of the call: *)
(*   env.rnd    the rand() draws, one [x, y, score] per raw keypoint         *)
(*   env.order  the order std::sort leaves the ranked indices in             *)
(*   env.ms     the measured duration                                        *)
(*   env.fail   the step at which an exception is thrown, or "none"          *)

SuperPointResult ==
  [keypoints |-> <<>>, descriptors |-> <<>>, scores |-> <<>>,
   processing_time_ms |-> 0]

DISKResult ==
  [keypoints |-> <<>>, descriptors |-> <<>>, scores |-> <<>>, soft_scores |-> <<>>,
   dense_keypoints |-> <<>>, dense_descriptors |-> <<>>, processing_time_ms |-> 0]

LoFTRResult ==
  [matches |-> <<>>, match_scores |-> <<>>, mutual_matches |-> <<>>,
   keypoints1 |-> <<>>, keypoints2 |-> <<>>, processing_time_ms |-> 0,
   num_matches |-> 0, match_ratio |-> 0]

SuperGlueResult ==
  [matches |-> <<>>, match_scores |-> <<>>, mutual_matches |-> <<>>,
   processing_time_ms |-> 0, num_matches |-> 0, match_ratio |-> 0]

\* The larger of the two instead.
Min_Larger(a, b) == IF a < b THEN b ELSE a

\* std::min
Min(a, b) == IF a < b THEN a ELSE b

Max(a, b) == IF a > b THEN a ELSE b

\* Without the std::min: every one of the n is taken.
MinSizeT_All(max_keypoints, n) == n

\* std::min(static_cast<size_t>(max_keypoints), n): a negative int converts to
\* a size_t above every vector size.
MinSizeT(max_keypoints, n) == IF max_keypoints < 0 THEN n ELSE Min(max_keypoints, n)

\* The subsequence of s at the positions of kept, in increasing order, from i on.
RECURSIVE SelectIdx(_, _, _)
SelectIdx(s, kept, i) ==
  IF i > Len(s) THEN <<>>
  ELSE (IF i \in kept THEN <<s[i]>> ELSE <<>>) \o SelectIdx(s, kept, i + 1)

\* The orders std::sort may leave 1..n in under "score[a] > score[b]": every
\* permutation with non-increasing scores (equal scores in any order).
SortedOrders(score, n) ==
  {o \in [1..n -> 1..n] :
     /\ \A i, j \in 1..n : i # j => o[i] # o[j]
     /\ \A i \in 1..n : \A j \in 1..n : i < j => score[o[i]] >= score[o[j]]}

\* The border test of FilterKeypoints: image dimensions are the literals 640, 480.
BorderWidth == 640

BorderHeight == 480

OutsideBorder(kp, margin) ==
  \/ kp.x < margin
  \/ kp.x >= BorderWidth - margin
  \/ kp.y < margin
  \/ kp.y >= BorderHeight - margin

\* The first loop with "scores[i] > config.keypoint_threshold".
Survives_Strict(keypoints, scores, config, i) ==
  /\ scores[i] > config.keypoint_threshold
  /\ ~(config.remove_borders /\ OutsideBorder(keypoints[i], config.border_margin))

\* The first loop of FilterKeypoints: does input index i survive?
Survives(keypoints, scores, config, i) ==
  /\ scores[i] >= config.keypoint_threshold
  /\ ~(config.remove_borders /\ OutsideBorder(keypoints[i], config.border_margin))

\* SuperPointDetector::FilterKeypoints; order ranks the survivors (see SortedOrders).
SuperPointDetector_FilterKeypoints(keypoints, scores, config, order) ==
  LET kept               == {i \in 1..Len(keypoints) : Survives(keypoints, scores, config, i)}
      filtered_keypoints == SelectIdx(keypoints, kept, 1)
      num_keypoints      == MinSizeT(config.max_keypoints, Len(filtered_keypoints))
  IN  [i \in 1..num_keypoints |-> filtered_keypoints[order[i]]]

\* The comparator reading the unfiltered scores.
SuperPointDetector_SortKey_Unfiltered(keypoints, scores, config) == scores

\* The sort key of SuperPointDetector::FilterKeypoints: filtered_scores.
SuperPointDetector_SortKey(keypoints, scores, config) ==
  LET kept == {i \in 1..Len(keypoints) : Survives(keypoints, scores, config, i)}
  IN  SelectIdx(scores, kept, 1)

\* Eigen::VectorXf::Random(dim) followed by normalize(): a unit vector of dim
\* components; only its dimension and norm (thousandths) are kept.
RandomUnitDescriptor(dim) == [dim |-> dim, norm |-> 1000]

\* The dummy score every kept keypoint is given at the end of Detect.
DummyScore == 800

\* The loop bound of the dummy keypoints: std::min(config.max_keypoints, 100).
DummyKeypoints == 100

SuperPointDetector_NumRaw(config) == Max(0, Min(config.max_keypoints, DummyKeypoints))

\* A Detect without the "model not loaded" return.
SuperPointDetector_Detect_Unchecked(self, image, config, env) ==
  LET keypoints == [i \in 1..Len(env.rnd) |-> [x |-> env.rnd[i].x, y |-> env.rnd[i].y]]
      scores    == [i \in 1..Len(env.rnd) |-> env.rnd[i].score]
      kept      == SuperPointDetector_FilterKeypoints(keypoints, scores, config, env.order)
      r1        == [SuperPointResult EXCEPT !.keypoints = kept]
      r2        == IF config.compute_descriptors
                     THEN [r1 EXCEPT !.descriptors =
                             [i \in 1..Len(kept) |-> RandomUnitDescriptor(config.descriptor_dim)]]
                     ELSE r1
      r3        == [r2 EXCEPT !.scores = [i \in 1..Len(kept) |-> DummyScore]]
  IN  CASE env.fail = "raw"         -> SuperPointResult
        [] env.fail = "descriptors" -> IF config.compute_descriptors THEN r1
                                       ELSE [r3 EXCEPT !.processing_time_ms = env.ms]
        [] OTHER                    -> [r3 EXCEPT !.processing_time_ms = env.ms]

SuperPointDetector_Detect(self, image, config, env) ==
  IF ~self.loaded_ THEN SuperPointResult
  ELSE
    LET keypoints == [i \in 1..Len(env.rnd) |-> [x |-> env.rnd[i].x, y |-> env.rnd[i].y]]
        scores    == [i \in 1..Len(env.rnd) |-> env.rnd[i].score]
        kept      == SuperPointDetector_FilterKeypoints(keypoints, scores, config, env.order)
        r1        == [SuperPointResult EXCEPT !.keypoints = kept]
        r2        == IF config.compute_descriptors
                       THEN [r1 EXCEPT !.descriptors =
                               [i \in 1..Len(kept) |-> RandomUnitDescriptor(config.descriptor_dim)]]
                       ELSE r1
        r3        == [r2 EXCEPT !.scores = [i \in 1..Len(kept) |-> DummyScore]]
    IN  CASE env.fail = "raw"         -> SuperPointResult
          [] env.fail = "descriptors" -> IF config.compute_descriptors THEN r1
                                         ELSE [r3 EXCEPT !.processing_time_ms = env.ms]
          [] OTHER                    -> [r3 EXCEPT !.processing_time_ms = env.ms]

-----------------------------------------------------------------------------
(* DISKDetector::Detect *)

\* The coordinates step, 2*step, ... below extent - step, as the grid loops
\* "for (v = step; v < extent - step; v += step)" visit them.
GridAxis(extent, step) ==
  LET n == IF extent - step - 1 < 0 THEN 0 ELSE (extent - step - 1) \div step
  IN  [k \in 1..n |-> k * step]

\* The regular grid of both ExtractDenseKeypoints: rows outermost.
Grid(image, step) ==
  LET xs == GridAxis(image.width, step)
      ys == GridAxis(image.height, step)
  IN  [i \in 1..(Len(xs) * Len(ys)) |->
         [x |-> xs[((i - 1) % Len(xs)) + 1], y |-> ys[((i - 1) \div Len(xs)) + 1]]]

DISKDetector_ExtractDenseKeypoints(image, config) ==
  Grid(image, Max(1, Min(image.width, image.height) \div 16))

DISKDetector_ExtractDenseDescriptors(image, config) ==
  [i \in 1..((image.width \div 16) * (image.height \div 16)) |->
     RandomUnitDescriptor(config.descriptor_dim)]

\* DISKDetector::FilterKeypoints keeps no filtered_scores: the comparator reads
\* scores, the unfiltered input, at positions of the filtered vector.  order
\* ranks the positions 1..Len(filtered_keypoints) under that key.
DISKDetector_FilterKeypoints(keypoints, scores, config, order) ==
  LET kept               == {i \in 1..Len(keypoints) : Survives(keypoints, scores, config, i)}
      filtered_keypoints == SelectIdx(keypoints, kept, 1)
      num_keypoints      == MinSizeT(config.max_keypoints, Len(filtered_keypoints))
  IN  [i \in 1..num_keypoints |-> filtered_keypoints[order[i]]]

\* The sort key of DISKDetector::FilterKeypoints: scores itself.
DISKDetector_SortKey(keypoints, scores, config) == scores

\* A NormalizeDescriptors that leaves the zero-norm descriptors out.
DISKDetector_NormalizeDescriptors_DropsZero(descriptors) ==
  LET positive == {i \in 1..Len(descriptors) : descriptors[i].norm > 0}
      kept     == SelectIdx(descriptors, positive, 1)
  IN  [i \in 1..Len(kept) |-> [kept[i] EXCEPT !.norm = (kept[i].norm * 1000) \div kept[i].norm]]

\* desc / norm has the norm norm / norm, in thousandths.
DISKDetector_NormalizeDescriptors(descriptors) ==
  [i \in 1..Len(descriptors) |->
     IF descriptors[i].norm > 0
       THEN [descriptors[i] EXCEPT !.norm = (descriptors[i].norm * 1000) \div descriptors[i].norm]
     ELSE descriptors[i]]

\* The placeholder returns its input.
DISKDetector_ApplySoftNMS(keypoints, scores, config) == keypoints

DISKDetector_ComputeSoftScores(descriptors, config) ==
  [i \in 1..Len(descriptors) |->
     IF descriptors[i].norm < config.soft_threshold THEN 0 ELSE descriptors[i].norm]

DISKDetector_Detect(self, image, config, env) ==
  IF ~self.loaded_ THEN DISKResult
  ELSE
    LET dense     == DISKDetector_ExtractDenseKeypoints(image, config)
        r0        == [DISKResult EXCEPT
                        !.dense_keypoints = dense,
                        !.dense_descriptors = DISKDetector_ExtractDenseDescriptors(image, config)]
        keypoints == dense
        scores    == [i \in 1..Len(dense) |-> env.rnd[i].score]
        filtered  == DISKDetector_FilterKeypoints(keypoints, scores, config, env.order)
        kept      == IF config.use_nms
                       THEN DISKDetector_ApplySoftNMS(filtered, scores, config)
                       ELSE filtered
        r1        == [r0 EXCEPT !.keypoints = kept]
        r2        == IF config.compute_descriptors
                       THEN [r1 EXCEPT !.descriptors =
                               DISKDetector_NormalizeDescriptors(
                                 [i \in 1..Len(kept) |->
                                    RandomUnitDescriptor(config.descriptor_dim)])]
                       ELSE r1
        r3        == [r2 EXCEPT
                        !.soft_scores = DISKDetector_ComputeSoftScores(r2.descriptors, config),
                        !.scores = [i \in 1..Len(kept) |-> DummyScore]]
    IN  CASE env.fail = "raw"         -> DISKResult
          [] env.fail = "descriptors" -> IF config.compute_descriptors THEN r1
                                         ELSE [r3 EXCEPT !.processing_time_ms = env.ms]
          [] OTHER                    -> [r3 EXCEPT !.processing_time_ms = env.ms]

-----------------------------------------------------------------------------
(* LoFTRMatcher::Match and SuperGlueMatcher::Match.  A match is <<a, b>>,   *)
(* zero-based indices as in the code.                                        *)

LoFTRMatcher_ExtractDenseKeypoints(image, config) ==
  LET keypoints == Grid(image, Max(1, Min(image.width, image.height) \div 32))
  IN  IF config.max_keypoints >= 0 /\ Len(keypoints) > config.max_keypoints
        THEN SubSeq(keypoints, 1, config.max_keypoints)
        ELSE keypoints

\* The placeholder: the pairs whose score reaches mutual_threshold.
LoFTRMatcher_ApplyMutualCheck(matches, scores, config) ==
  LET kept == {i \in 1..Len(matches) : scores[i] >= config.mutual_threshold}
  IN  SelectIdx(matches, kept, 1)

LoFTRMatcher_Match(self, image1, image2, config, env) ==
  IF ~self.loaded_ THEN LoFTRResult
  ELSE
    LET keypoints1  == LoFTRMatcher_ExtractDenseKeypoints(image1, config)
        keypoints2  == LoFTRMatcher_ExtractDenseKeypoints(image2, config)
        r0          == [LoFTRResult EXCEPT !.keypoints1 = keypoints1,
                                           !.keypoints2 = keypoints2]
        num_matches == Min(Len(keypoints1), Len(keypoints2))
        matches     == [i \in 1..num_matches |-> <<i - 1, i - 1>>]
        scores      == [i \in 1..num_matches |-> env.rnd[i].score]
        checked     == IF config.use_mutual_check
                         THEN LoFTRMatcher_ApplyMutualCheck(matches, scores, config)
                         ELSE matches
        \* the threshold loop reads match_scores[i] at the positions of the
        \* (possibly shortened) matches
        kept        == {i \in 1..Len(checked) : scores[i] >= config.match_threshold}
        filtered_matches == SelectIdx(checked, kept, 1)
        filtered_scores  == SelectIdx(SubSeq(scores, 1, Len(checked)), kept, 1)
        n           == Len(filtered_matches)
        r1          == [r0 EXCEPT
                          !.matches = filtered_matches,
                          !.match_scores = filtered_scores,
                          !.num_matches = n,
                          !.match_ratio = IF Len(keypoints1) > 0
                                            THEN (n * 1000) \div Len(keypoints1) ELSE 0,
                          !.processing_time_ms = env.ms]
    IN  CASE env.fail = "raw"     -> LoFTRResult
          [] env.fail = "matches" -> r0
          [] OTHER                -> r1

\* A Match without the return on an empty keypoint or descriptor vector.
SuperGlueMatcher_Match_NoEmptyCheck(self, keypoints1, descriptors1, keypoints2, descriptors2, config) ==
  IF ~self.loaded_ THEN SuperGlueResult
  ELSE
    LET num_matches == Min(Len(keypoints1), Len(keypoints2))
    IN  [SuperGlueResult EXCEPT !.matches = [i \in 1..num_matches |-> <<i - 1, i - 1>>]]

\* No score, count or ratio is ever assigned; there is no try block.
SuperGlueMatcher_Match(self, keypoints1, descriptors1, keypoints2, descriptors2, config) ==
  IF ~self.loaded_ THEN SuperGlueResult
  ELSE IF keypoints1 = <<>> \/ keypoints2 = <<>> \/ descriptors1 = <<>> \/ descriptors2 = <<>>
    THEN SuperGlueResult
  ELSE
    LET num_matches == Min(Len(keypoints1), Len(keypoints2))
    IN  [SuperGlueResult EXCEPT !.matches = [i \in 1..num_matches |-> <<i - 1, i - 1>>]]

-----------------------------------------------------------------------------
(* MLManager.  An unordered_map is the sequence of its entries, keys unique; *)
(* the heap maps a model instance to its fields.                             *)

\* unordered_map::find: the position of key's entry, 0 for end().
RECURSIVE FindFrom(_, _, _, _)
FindFrom(table, field, key, i) ==
  IF i > Len(table) THEN 0
  ELSE IF table[i][field] = key THEN i
  ELSE FindFrom(table, field, key, i + 1)

\* The key fields of the entries of models_ and of model_type_map_.
NameOf == "name"

TypeOf == "type"

\* models_[name] = model: the entry of name is overwritten, or a new one added.
\* An insertion that never looks for the entry of name.
AssignModel_Append(table, name, model) == Append(table, [name |-> name, model |-> model])

AssignModel(table, name, model) ==
  LET i == FindFrom(table, NameOf, name, 1)
  IN  IF i = 0 THEN Append(table, [name |-> name, model |-> model])
      ELSE [table EXCEPT ![i] = [name |-> name, model |-> model]]

\* model_type_map_[type] = name
AssignType(table, type, name) ==
  LET i == FindFrom(table, TypeOf, type, 1)
  IN  IF i = 0 THEN Append(table, [type |-> type, name |-> name])
      ELSE [table EXCEPT ![i] = [type |-> type, name |-> name]]

\* A RegisterModel that, like unordered_map::emplace, keeps an existing binding.
MLManager_RegisterModel_Emplace(heap, names, types, name, model) ==
  IF model = nullptr \/ FindFrom(names, NameOf, name, 1) # 0
    THEN [models_ |-> names, model_type_map_ |-> types, ret |-> "false"]
  ELSE [models_         |-> Append(names, [name |-> name, model |-> model]),
        model_type_map_ |-> AssignType(types, GetType(heap[model]), name),
        ret             |-> "true"]

\* A RegisterModel that binds the name also when the model is empty.
MLManager_RegisterModel_StoresNull(heap, names, types, name, model) ==
  IF model = nullptr
    THEN [models_ |-> AssignModel(names, name, model), model_type_map_ |-> types,
          ret |-> "false"]
  ELSE [models_         |-> AssignModel(names, name, model),
        model_type_map_ |-> AssignType(types, GetType(heap[model]), name),
        ret             |-> "true"]

MLManager_RegisterModel(heap, names, types, name, model) ==
  IF model = nullptr THEN [models_ |-> names, model_type_map_ |-> types, ret |-> "false"]
  ELSE [models_         |-> AssignModel(names, name, model),
        model_type_map_ |-> AssignType(types, GetType(heap[model]), name),
        ret             |-> "true"]

\* GetModel(const std::string&)
MLManager_GetModel(names, name) ==
  LET it == FindFrom(names, NameOf, name, 1)
  IN  IF it = 0 THEN nullptr ELSE names[it].model

\* GetModel(MLModelType)
MLManager_GetModelOfType(names, types, type) ==
  LET it == FindFrom(types, TypeOf, type, 1)
  IN  IF it = 0 THEN nullptr ELSE MLManager_GetModel(names, types[it].name)

\* called is the set of instances whose Load was entered.
MLManager_LoadModel(heap, names, name, config) ==
  The({IF model = nullptr THEN [heap |-> heap, ret |-> "false", called |-> {}, inits |-> 0]
       ELSE IF IsLoaded(heap[model])
         THEN [heap |-> heap, ret |-> "true", called |-> {}, inits |-> 0]
       ELSE The({[heap |-> [heap EXCEPT ![model] = r.self], ret |-> r.ret,
                  called |-> {model}, inits |-> r.inits] :
                 r \in {Load(heap[model], config)}}) :
       model \in {MLManager_GetModel(names, name)}})

\* An UnloadModel for which a missing model counts as already unloaded.
MLManager_UnloadModel_Lenient(heap, names, name) ==
  The({IF model = nullptr \/ ~IsLoaded(heap[model])
         THEN [heap |-> heap, ret |-> "true", called |-> {}]
       ELSE [heap |-> [heap EXCEPT ![model] = Unload(heap[model])], ret |-> "true",
             called |-> {model}] :
       model \in {MLManager_GetModel(names, name)}})

MLManager_UnloadModel(heap, names, name) ==
  The({IF model = nullptr THEN [heap |-> heap, ret |-> "false", called |-> {}]
       ELSE IF ~IsLoaded(heap[model]) THEN [heap |-> heap, ret |-> "true", called |-> {}]
       ELSE [heap |-> [heap EXCEPT ![model] = Unload(heap[model])], ret |-> "true",
             called |-> {model}] :
       model \in {MLManager_GetModel(names, name)}})

\* A loop that returns after the first model it unloads.
MLManager_UnloadAllModels_First(heap, names, i) ==
  LET loaded == {j \in i..Len(names) :
                   names[j].model # nullptr /\ IsLoaded(heap[names[j].model])}
  IN  IF loaded = {} THEN [heap |-> heap, called |-> {}]
      ELSE LET j     == CHOOSE k \in loaded : \A l \in loaded : k <= l
               model == names[j].model
           IN  [heap |-> [heap EXCEPT ![model] = Unload(heap[model])], called |-> {model}]

\* An UnloadAllModels that unloads every loaded instance there is, bound or not.
MLManager_UnloadAllModels_Heap(heap, names, i) ==
  LET loaded == {m \in DOMAIN heap : IsLoaded(heap[m])}
  IN  [heap   |-> [m \in DOMAIN heap |-> IF m \in loaded THEN Unload(heap[m]) ELSE heap[m]],
       called |-> loaded]

\* The loop over models_, from entry i on.
RECURSIVE MLManager_UnloadAllModels(_, _, _)
MLManager_UnloadAllModels(heap, names, i) ==
  IF i > Len(names) THEN [heap |-> heap, called |-> {}]
  ELSE
    LET model == names[i].model
        hit   == model # nullptr /\ IsLoaded(heap[model])
        after == IF hit THEN [heap EXCEPT ![model] = Unload(heap[model])] ELSE heap
    IN  The({[heap   |-> rest.heap,
              called |-> rest.called \cup (IF hit THEN {model} ELSE {})] :
             rest \in {MLManager_UnloadAllModels(h, names, i + 1) : h \in {after}}})

\* A loop over models_ that starts at the second entry.
MLManager_GetAvailableModels_SkipsFirst(names) == [i \in 1..(Len(names) - 1) |-> names[i + 1].name]

MLManager_GetAvailableModels(names) == [i \in 1..Len(names) |-> names[i].name]

MLManager_GetAvailableModelTypes(types) == [i \in 1..Len(types) |-> types[i].type]

MLManager_IsModelLoaded(heap, names, name) ==
  LET it == FindFrom(names, NameOf, name, 1)
  IN  IF it = 0 THEN FALSE
      ELSE names[it].model # nullptr /\ IsLoaded(heap[names[it].model])

MLManager_IsModelTypeAvailable(types, type) == FindFrom(types, TypeOf, type, 1) # 0

MLManager_GetAvailableDevices == <<"CPU", "CUDA">>

\* An availability test that accepts every device of the enumeration.
MLManager_IsDeviceAvailable_Any(device) == device \in MLDevice

MLManager_IsDeviceAvailable(device) ==
  \E i \in 1..Len(MLManager_GetAvailableDevices) : MLManager_GetAvailableDevices[i] = device

MLManager_SetDefaultDevice(default, device) ==
  IF MLManager_IsDeviceAvailable(device) THEN device ELSE default

MLManager_GetDefaultDevice(default) == default

MLManager_SetModelCacheDirectory(cache_directory, path) == path

MLManager_GetModelCacheDirectory(cache_directory) == cache_directory

MLManager_SetDownloadEnabled(download_enabled, enabled) == enabled

MLManager_IsDownloadEnabled(download_enabled) == download_enabled

\* What PrintModelInfo logs (the cache size, read from the file system, left
\* out): the counts, the settings and one line per entry of models_.
MLManager_PrintModelInfo(heap, names, cache_directory, download_enabled, default) ==
  [registered |-> Len(names),
   loaded     |-> Cardinality({i \in 1..Len(names) :
                                 names[i].model # nullptr /\ IsLoaded(heap[names[i].model])}),
   cache      |-> IF cache_directory = "" THEN "Not set" ELSE cache_directory,
   download   |-> IF download_enabled THEN "Yes" ELSE "No",
   device     |-> default,
   lines      |-> [i \in 1..Len(names) |->
                     [name    |-> names[i].name,
                      type    |-> GetType(heap[names[i].model]),
                      loaded  |-> IF IsLoaded(heap[names[i].model]) THEN "Yes" ELSE "No",
                      backend |-> GetBackend(heap[names[i].model]),
                      device  |-> GetDevice(heap[names[i].model])]]]

-----------------------------------------------------------------------------
(* The instances that callers construct, and the inputs they pass *)

AllInstances == {"sp1", "sp2", "disk1", "loftr1", "sg1"}

\* std::make_shared<...>() of each instance.
Construct(m) ==
  CASE m \in {"sp1", "sp2"} -> SuperPointDetector
    [] m = "disk1"          -> DISKDetector
    [] m = "loftr1"         -> LoFTRMatcher
    [] m = "sg1"            -> SuperGlueMatcher

\* The instances that exist in one run of the registry: two of one class, or a
\* detector with a matcher.
Pools == {{"sp1", "sp2"}, {"sp1", "sg1"}}

ModelNames == {"d1", "m2"}

\* The kinds asked for: those of the pooled instances and one that no class has.
QueriedTypes == {"SUPERPONT_DETECTOR", "SUPERGLUE_MATCHER", "R2D2_DETECTOR"}

\* "50", "abc", "0.5", "7x", "99999999999" as the strings Load parses.
Str50 == <<"5", "0">>

StrAbc == <<"a", "b", "c">>

StrHalf == <<"0", ".", "5">>

Str7x == <<" ", "7", "x">>

StrHuge == <<"9", "9", "9", "9", "9", "9", "9", "9", "9", "9", "9">>

CfgPlain == MLModelConfig("PYTORCH", "CPU", <<>>)

CfgGood == MLModelConfig("ONNX", "CUDA", << <<"max_keypoints", Str50>> >>)

CfgBad ==
  MLModelConfig("TENSORFLOW", "OPENCL",
                << <<"keypoint_threshold", StrHalf>>, <<"match_threshold", StrHalf>>,
                   <<"max_keypoints", StrAbc>> >>)

CfgOdd ==
  MLModelConfig("OPENVINO", "VULKAN",
                << <<"max_keypoints", Str7x>>, <<"unknown_key", StrAbc>>,
                   <<"nms_radius", StrHalf>>, <<"descriptor_dim", Str50>>,
                   <<"fine_threshold", StrHalf>> >>)

CfgHuge == MLModelConfig("ONNX", "CPU", << <<"max_keypoints", StrHuge>> >>)

\* "1": a max_keypoints below the number of keypoints the small images give.
Str1 == <<"1">>

CfgOne == MLModelConfig("PYTORCH", "CPU", << <<"max_keypoints", Str1>> >>)

\* The configs passed to Load in the lifecycle runs, and in the registry runs.
LoadConfigs == {CfgPlain, CfgGood, CfgBad}

\* A config whose only effect on a detector is the exception of std::stoi.
CfgThrow == MLModelConfig("PYTORCH", "CPU", << <<"max_keypoints", StrAbc>> >>)

RegistryConfigs == {CfgPlain, CfgThrow}

\* The devices handed to SetDefaultDevice.
RequestedDevices == {"CPU", "CUDA", "OPENCL"}

\* The callers that run concurrently, and a caller that is inside no call.
Threads == {"t1", "t2"}

Idle == [at |-> "idle", name |-> "", model |-> nullptr, config |-> <<>>]

-----------------------------------------------------------------------------
(* The record of the most recent call *)

NoCall ==
  [op |-> "none", name |-> "", model |-> nullptr, config |-> <<>>, ret |-> "void",
   inits |-> 0, args |-> <<>>, result |-> <<>>, fail |-> "none"]

\* After Load/Unload was entered on the instances in called, with outcome tag.
Noted(hist, called, tag) == [m \in DOMAIN hist |-> IF m \in called THEN tag ELSE hist[m]]

-----------------------------------------------------------------------------
(* Calls on a model instance *)

CallLoad(m, config) ==
  \E r \in {Load(models[m], config)} :
      /\ models' = [models EXCEPT ![m] = r.self]
      /\ last' = [NoCall EXCEPT !.op = "Load", !.model = m, !.config = config,
                                !.ret = r.ret, !.inits = r.inits]
      /\ lastLoadTrue' = Noted(lastLoadTrue, {m}, r.ret = "true")
      /\ UNCHANGED <<regVars, lastOfKind, threads>>

CallUnload(m) ==
  /\ models' = [models EXCEPT ![m] = Unload(models[m])]
  /\ last' = [NoCall EXCEPT !.op = "Unload", !.model = m]
  /\ lastLoadTrue' = Noted(lastLoadTrue, {m}, FALSE)
  /\ UNCHANGED <<regVars, lastOfKind, threads>>

\* SetConfig of each class: config_ = config.
SetConfig(self, config) == [self EXCEPT !.config_ = config]

CallSetConfig(m, config) ==
  /\ models' = [models EXCEPT ![m] = SetConfig(models[m], config)]
  /\ last' = [NoCall EXCEPT !.op = "SetConfig", !.model = m, !.config = config]
  /\ UNCHANGED <<regVars, lastLoadTrue, lastOfKind, threads>>

\* How many raw keypoints (rand() draws) one Detect or Match makes.
MaxRaw == 2

\* The images of the dense (grid) extractors, and those of SuperPoint, one of
\* them wider and higher than the 640 x 480 of the border test.
SmallImages == {[width |-> 3, height |-> 3], [width |-> 4, height |-> 3]}

Images == {[width |-> 4, height |-> 3], [width |-> 1000, height |-> 600]}

\* One draw is rand() % width, rand() % height and a score; the draws are
\* sampled from these.
SampleDraws ==
  {[x |-> 0, y |-> 0, score |-> 900], [x |-> 2, y |-> 1, score |-> 500],
   [x |-> 700, y |-> 5, score |-> 500], [x |-> 7, y |-> 5, score |-> 950]}

SampleMs == {0, 3}

\* The sizes of the keypoint and descriptor vectors handed to SuperGlue.
SetSizes == {0, 2}

RandDraws(image) == {d \in SampleDraws : d.x < image.width /\ d.y < image.height}

\* The elapsed milliseconds a call can measure: none is read on a failure.
Elapsed(fail) == IF fail = "none" THEN SampleMs ELSE {0}

\* The SuperPointConfig values passed to Detect; the first is the default
\* argument "config = {}".
SuperPointConfigs ==
  {SuperPointConfig,
   [SuperPointConfig EXCEPT !.max_keypoints = MaxRaw],
   [SuperPointConfig EXCEPT !.max_keypoints = 1, !.keypoint_threshold = 600,
                            !.compute_descriptors = FALSE],
   [SuperPointConfig EXCEPT !.max_keypoints = MaxRaw, !.remove_borders = FALSE]}

DISKConfigs ==
  {DISKConfig,
   [DISKConfig EXCEPT !.max_keypoints = 1, !.border_margin = 1],
   [DISKConfig EXCEPT !.remove_borders = FALSE, !.keypoint_threshold = 600,
                      !.use_nms = FALSE],
   [DISKConfig EXCEPT !.remove_borders = FALSE, !.compute_descriptors = FALSE]}

LoFTRConfigs ==
  {LoFTRConfig,
   [LoFTRConfig EXCEPT !.mutual_threshold = 850, !.match_threshold = 850],
   [LoFTRConfig EXCEPT !.max_keypoints = 1, !.use_mutual_check = FALSE]}

SuperGlueConfigs == {SuperGlueConfig, [SuperGlueConfig EXCEPT !.use_mutual_check = FALSE]}

\* How many inputs the first loop of FilterKeypoints keeps.
NumSurvivors(keypoints, scores, config) ==
  Cardinality({i \in 1..Len(keypoints) : Survives(keypoints, scores, config, i)})

\* The step of Detect or Match at which the exception drawn as fail is thrown
\* and caught by the call's catch block: "none" when that step is not reached
\* (the model is not loaded) or not executed (no descriptors are computed).
Caught(self, config, fail) ==
  IF ~self.loaded_ THEN "none"
  ELSE IF fail = "descriptors" /\ ~config.compute_descriptors THEN "none"
  ELSE fail

\* A detector's Detect(image, config).  An unloaded model draws nothing.  The
\* raw keypoints and scores that Detect hands to FilterKeypoints are kept in
\* last.args, before the image.
CallDetect(m, image, config) ==
  /\ models[m].class \in {"SuperPointDetector", "DISKDetector"}
  /\ LET self  == models[m]
         isSP  == self.class = "SuperPointDetector"
         nraw  == IF ~self.loaded_ THEN 0
                  ELSE IF isSP THEN SuperPointDetector_NumRaw(config)
                  ELSE Len(DISKDetector_ExtractDenseKeypoints(image, config))
     IN  /\ nraw <= MaxRaw
         /\ \E rnd \in [1..nraw -> RandDraws(image)],
               fail \in {"none", "raw", "descriptors"} :
             \E ms \in Elapsed(fail) :
              \E kps \in {IF isSP THEN [i \in 1..nraw |-> [x |-> rnd[i].x, y |-> rnd[i].y]]
                          ELSE IF self.loaded_
                            THEN DISKDetector_ExtractDenseKeypoints(image, config)
                          ELSE <<>>},
                 scores \in {[i \in 1..nraw |-> rnd[i].score]} :
                \E key \in {IF isSP THEN SuperPointDetector_SortKey(kps, scores, config)
                            ELSE DISKDetector_SortKey(kps, scores, config)},
                   n \in {NumSurvivors(kps, scores, config)} :
                  \E order \in SortedOrders(key, n) :
                    \E env \in {[rnd |-> rnd, order |-> order, ms |-> ms, fail |-> fail]} :
                      last' = [NoCall EXCEPT
                                 !.op = "Detect", !.model = m, !.config = config,
                                 !.args = <<kps, scores, image>>,
                                 !.fail = Caught(self, config, fail),
                                 !.result =
                                   IF isSP
                                     THEN SuperPointDetector_Detect(self, image, config, env)
                                     ELSE DISKDetector_Detect(self, image, config, env)]
  /\ UNCHANGED <<models, regVars, lastLoadTrue, lastOfKind, threads>>

\* How many candidate pairs one LoFTRMatcher::Match makes.
MaxCandidates == 3

\* rand() % 100 of the candidate scores, sampled.
SampleRands == {0, 25, 75}

\* One candidate score is 0.8f + 0.2f * (rand() % 100) / 100.0f.
MatchDraws == {[score |-> 800 + 2 * r] : r \in SampleRands}

\* LoFTRMatcher::Match(image1, image2, config).  The candidate scores drawn are
\* kept in last.args, after the images.
CallMatchImages(m, image1, image2, config) ==
  /\ models[m].class = "LoFTRMatcher"
  /\ LET self == models[m]
         nraw == IF ~self.loaded_ THEN 0
                 ELSE Min(Len(LoFTRMatcher_ExtractDenseKeypoints(image1, config)),
                          Len(LoFTRMatcher_ExtractDenseKeypoints(image2, config)))
     IN  /\ nraw <= MaxCandidates
         /\ \E rnd \in [1..nraw -> MatchDraws],
               fail \in {"none", "raw", "matches"} :
             \E ms \in Elapsed(fail) :
              LET env == [rnd |-> rnd, order |-> <<>>, ms |-> ms, fail |-> fail]
              IN  last' = [NoCall EXCEPT
                             !.op = "Match", !.model = m, !.config = config,
                             !.args = <<image1, image2,
                                        [i \in 1..nraw |-> rnd[i].score]>>,
                             !.fail = Caught(self, config, fail),
                             !.result = LoFTRMatcher_Match(self, image1, image2, config, env)]
  /\ UNCHANGED <<models, regVars, lastLoadTrue, lastOfKind, threads>>

\* SuperGlueMatcher::Match(keypoints1, descriptors1, keypoints2, descriptors2,
\* config); only the sizes of the four vectors are read.
CallMatchSets(m, n1, d1, n2, d2, config) ==
  /\ models[m].class = "SuperGlueMatcher"
  /\ LET self == models[m]
         kps(n)   == [i \in 1..n |-> [x |-> i, y |-> i]]
         descs(n) == [i \in 1..n |-> RandomUnitDescriptor(2)]
     IN  last' = [NoCall EXCEPT
                    !.op = "Match", !.model = m, !.config = config,
                    !.args = <<n1, d1, n2, d2>>,
                    !.result = SuperGlueMatcher_Match(self, kps(n1), descs(d1), kps(n2),
                                                      descs(d2), config)]
  /\ UNCHANGED <<models, regVars, lastLoadTrue, lastOfKind, threads>>

-----------------------------------------------------------------------------
(* Calls on the registry *)

CallRegisterModel(name, model) ==
  \E r \in {MLManager_RegisterModel(models, models_, model_type_map_, name, model)} :
      /\ models_' = r.models_
      /\ model_type_map_' = r.model_type_map_
      /\ last' = [NoCall EXCEPT !.op = "RegisterModel", !.name = name, !.model = model,
                                !.ret = r.ret]
      /\ lastOfKind' = IF r.ret = "true"
                         THEN [lastOfKind EXCEPT ![GetType(models[model])] = model]
                         ELSE lastOfKind
      /\ UNCHANGED <<models, default_device_, cache_directory_, download_enabled_,
                     lastLoadTrue, threads>>

CallGetModel(name) ==
  /\ last' = [NoCall EXCEPT !.op = "GetModel", !.name = name,
                            !.ret = MLManager_GetModel(models_, name)]
  /\ UNCHANGED <<models, regVars, lastLoadTrue, lastOfKind, threads>>

CallGetModelOfType(type) ==
  /\ last' = [NoCall EXCEPT !.op = "GetModelOfType", !.name = type,
                            !.ret = MLManager_GetModelOfType(models_, model_type_map_, type)]
  /\ UNCHANGED <<models, regVars, lastLoadTrue, lastOfKind, threads>>

CallLoadModel(name, config) ==
  \E r \in {MLManager_LoadModel(models, models_, name, config)} :
      /\ models' = r.heap
      /\ last' = [NoCall EXCEPT !.op = "LoadModel", !.name = name, !.config = config,
                                !.ret = r.ret, !.inits = r.inits]
      /\ lastLoadTrue' = Noted(lastLoadTrue, r.called, r.ret = "true")
      /\ UNCHANGED <<regVars, lastOfKind, threads>>

CallUnloadModel(name) ==
  \E r \in {MLManager_UnloadModel(models, models_, name)} :
      /\ models' = r.heap
      /\ last' = [NoCall EXCEPT !.op = "UnloadModel", !.name = name, !.ret = r.ret]
      /\ lastLoadTrue' = Noted(lastLoadTrue, r.called, FALSE)
      /\ UNCHANGED <<regVars, lastOfKind, threads>>

CallUnloadAllModels ==
  \E r \in {MLManager_UnloadAllModels(models, models_, 1)} :
      /\ models' = r.heap
      /\ last' = [NoCall EXCEPT !.op = "UnloadAllModels",
                                !.result = [unloaded |-> r.called]]
      /\ lastLoadTrue' = Noted(lastLoadTrue, r.called, FALSE)
      /\ UNCHANGED <<regVars, lastOfKind, threads>>

CallIsModelLoaded(name) ==
  /\ last' = [NoCall EXCEPT
                !.op = "IsModelLoaded", !.name = name,
                !.ret = IF MLManager_IsModelLoaded(models, models_, name) THEN "true"
                        ELSE "false"]
  /\ UNCHANGED <<models, regVars, lastLoadTrue, lastOfKind, threads>>

CallSetDefaultDevice(device) ==
  /\ default_device_' = MLManager_SetDefaultDevice(default_device_, device)
  /\ last' = [NoCall EXCEPT !.op = "SetDefaultDevice", !.name = device]
  /\ UNCHANGED <<models, models_, model_type_map_, cache_directory_, download_enabled_,
                 lastLoadTrue, lastOfKind, threads>>

\* The read-only operations of the registry: each returns what it reads.
Answer(b) == IF b THEN "true" ELSE "false"

Read(op, key, ret, result) ==
  /\ last' = [NoCall EXCEPT !.op = op, !.name = key, !.ret = ret, !.result = result]
  /\ UNCHANGED <<models, regVars, lastLoadTrue, lastOfKind, threads>>

CallGetAvailableModels ==
  Read("GetAvailableModels", "", "void", [value |-> MLManager_GetAvailableModels(models_)])

CallGetAvailableModelTypes ==
  Read("GetAvailableModelTypes", "", "void",
       [value |-> MLManager_GetAvailableModelTypes(model_type_map_)])

CallIsModelTypeAvailable(type) ==
  Read("IsModelTypeAvailable", type,
       Answer(MLManager_IsModelTypeAvailable(model_type_map_, type)), <<>>)

CallGetAvailableDevices ==
  Read("GetAvailableDevices", "", "void", [value |-> MLManager_GetAvailableDevices])

CallGetDefaultDevice ==
  Read("GetDefaultDevice", "", MLManager_GetDefaultDevice(default_device_), <<>>)

CallGetModelCacheDirectory ==
  Read("GetModelCacheDirectory", "", MLManager_GetModelCacheDirectory(cache_directory_), <<>>)

CallIsDownloadEnabled ==
  Read("IsDownloadEnabled", "", Answer(MLManager_IsDownloadEnabled(download_enabled_)), <<>>)

CallPrintModelInfo ==
  Read("PrintModelInfo", "", "void",
       MLManager_PrintModelInfo(models, models_, cache_directory_, download_enabled_,
                                default_device_))

CallSetModelCacheDirectory(path) ==
  /\ cache_directory_' = MLManager_SetModelCacheDirectory(cache_directory_, path)
  /\ last' = [NoCall EXCEPT !.op = "SetModelCacheDirectory", !.name = path]
  /\ UNCHANGED <<models, models_, model_type_map_, default_device_, download_enabled_,
                 lastLoadTrue, lastOfKind, threads>>

CallSetDownloadEnabled(enabled) ==
  /\ download_enabled_' = MLManager_SetDownloadEnabled(download_enabled_, enabled)
  /\ last' = [NoCall EXCEPT !.op = "SetDownloadEnabled", !.name = Answer(enabled)]
  /\ UNCHANGED <<models, models_, model_type_map_, default_device_, cache_directory_,
                 lastLoadTrue, lastOfKind, threads>>

-----------------------------------------------------------------------------
(* SuperPointDetector::Load and MLManager::RegisterModel as the steps that    *)
(* concurrent callers interleave: the code takes no lock, so each read or    *)
(* write of a member is a step of its own.                                   *)

\* The thread leaves its call, which returned ret.
Return(t, op, ret, inits) ==
  /\ threads' = [threads EXCEPT ![t] = Idle]
  /\ last' = [NoCall EXCEPT !.op = op, !.name = threads[t].name, !.model = threads[t].model,
                            !.config = threads[t].config, !.ret = ret, !.inits = inits]

\* model->Load(config) is entered.
StartLoad(t, m, config) ==
  /\ threads[t].at = "idle"
  /\ threads' = [threads EXCEPT ![t] = [Idle EXCEPT !.at = "Load:check", !.model = m,
                                                    !.config = config]]
  /\ UNCHANGED <<models, regVars, last, lastLoadTrue, lastOfKind>>

\* MLManager::LoadModel up to its call of model->Load(config).
StartLoadModel(t, name, config) ==
  /\ threads[t].at = "idle"
  /\ \E model \in {MLManager_GetModel(models_, name)} :
       IF model = nullptr \/ IsLoaded(models[model])
         THEN /\ threads' = threads
              /\ last' = [NoCall EXCEPT !.op = "LoadModel", !.name = name, !.config = config,
                                        !.ret = Answer(model # nullptr)]
         ELSE /\ threads' = [threads EXCEPT ![t] = [at |-> "Load:check", name |-> name,
                                                    model |-> model, config |-> config]]
              /\ last' = last
  /\ UNCHANGED <<models, regVars, lastLoadTrue, lastOfKind>>

\* if (loaded_) return true;
LoadCheck(t) ==
  /\ threads[t].at = "Load:check"
  /\ IF models[threads[t].model].loaded_
       THEN Return(t, "Load", "true", 0)
       ELSE threads' = [threads EXCEPT ![t].at = "Load:store"] /\ last' = last
  /\ UNCHANGED <<models, regVars, lastLoadTrue, lastOfKind>>

\* backend_ = ...; device_ = ...; the parameter loop.
LoadStore(t) ==
  /\ threads[t].at = "Load:store"
  /\ \E m \in {threads[t].model} :
       \E p \in {SuperPointDetector_StoreParameters(models[m].config_,
                                                    threads[t].config.parameters)} :
         /\ models' = [models EXCEPT ![m].backend_ = threads[t].config.backend,
                                     ![m].device_ = threads[t].config.device,
                                     ![m].config_ = p.config_]
         /\ IF p.threw
              THEN /\ Return(t, "Load", "throw", 0)
                   /\ lastLoadTrue' = Noted(lastLoadTrue, {m}, FALSE)
              ELSE /\ threads' = [threads EXCEPT ![t].at = "Load:init"]
                   /\ UNCHANGED <<last, lastLoadTrue>>
  /\ UNCHANGED <<regVars, lastOfKind>>

\* bool success = InitializeModel();
LoadInitialize(t) ==
  /\ threads[t].at = "Load:init"
  /\ \E m \in {threads[t].model} :
       \E init \in {SuperPointDetector_InitializeModel(models[m])} :
         /\ models' = [models EXCEPT ![m] = init.self]
         /\ threads' = [threads EXCEPT ![t].at = IF init.success THEN "Load:loaded"
                                                 ELSE "Load:failed"]
  /\ UNCHANGED <<regVars, last, lastLoadTrue, lastOfKind>>

\* if (success) loaded_ = true; return success;
LoadFinish(t) ==
  /\ threads[t].at \in {"Load:loaded", "Load:failed"}
  /\ \E m \in {threads[t].model}, success \in {threads[t].at = "Load:loaded"} :
       /\ models' = [models EXCEPT ![m].loaded_ = IF success THEN TRUE ELSE @]
       /\ lastLoadTrue' = Noted(lastLoadTrue, {m}, success)
       /\ Return(t, IF threads[t].name = "" THEN "Load" ELSE "LoadModel", Answer(success), 1)
  /\ UNCHANGED <<regVars, lastOfKind>>

\* if (!model) return false; models_[name] = model;
StartRegisterModel(t, name, model) ==
  /\ threads[t].at = "idle"
  /\ IF model = nullptr
       THEN /\ threads' = threads
            /\ models_' = models_
            /\ last' = [NoCall EXCEPT !.op = "RegisterModel", !.name = name, !.ret = "false"]
       ELSE /\ models_' = AssignModel(models_, name, model)
            /\ threads' = [threads EXCEPT ![t] = [Idle EXCEPT !.at = "RegisterModel:type",
                                                              !.name = name, !.model = model]]
            /\ last' = last
  /\ UNCHANGED <<models, model_type_map_, default_device_, cache_directory_,
                 download_enabled_, lastLoadTrue, lastOfKind>>

\* model_type_map_[model->GetType()] = name; return true;
FinishRegisterModel(t) ==
  /\ threads[t].at = "RegisterModel:type"
  /\ \E type \in {GetType(models[threads[t].model])} :
       /\ model_type_map_' = AssignType(model_type_map_, type, threads[t].name)
       /\ lastOfKind' = [lastOfKind EXCEPT ![type] = threads[t].model]
  /\ Return(t, "RegisterModel", "true", 0)
  /\ UNCHANGED <<models, models_, default_device_, cache_directory_, download_enabled_,
                 lastLoadTrue>>

-----------------------------------------------------------------------------
(* SuperPointDetector::Detect and SuperPointDetector::Unload as the steps    *)
(* that concurrent callers interleave: neither takes a lock.                 *)

\* The image every concurrent Detect is handed.
RaceImage == [width |-> 10, height |-> 10]

\* Detect(image, config) is entered.
StartDetect(t, m, config) ==
  /\ threads[t].at = "idle"
  /\ models[m].class = "SuperPointDetector"
  /\ threads' = [threads EXCEPT ![t] = [Idle EXCEPT !.at = "Detect:check", !.model = m,
                                                    !.config = config]]
  /\ UNCHANGED <<models, regVars, last, lastLoadTrue, lastOfKind>>

\* if (!loaded_) return result;
DetectCheck(t) ==
  /\ threads[t].at = "Detect:check"
  /\ IF ~models[threads[t].model].loaded_
       THEN /\ threads' = [threads EXCEPT ![t] = Idle]
            /\ last' = [NoCall EXCEPT !.op = "Detect", !.model = threads[t].model,
                                      !.config = threads[t].config,
                                      !.result = SuperPointResult]
       ELSE /\ threads' = [threads EXCEPT ![t].at = "Detect:run"]
            /\ last' = last
  /\ UNCHANGED <<models, regVars, lastLoadTrue, lastOfKind>>

\* The try block and the return: the steps after the loaded check, which read
\* no member of the detector again.  last.args ends with the handle the
\* detector held while they ran.
DetectRun(t) ==
  /\ threads[t].at = "Detect:run"
  /\ \E m \in {threads[t].model}, config \in {threads[t].config} :
       \E rnd \in [1..SuperPointDetector_NumRaw(config) -> RandDraws(RaceImage)],
          ms \in SampleMs :
         \E kps \in {[i \in 1..Len(rnd) |-> [x |-> rnd[i].x, y |-> rnd[i].y]]},
            scores \in {[i \in 1..Len(rnd) |-> rnd[i].score]} :
           \E order \in SortedOrders(SuperPointDetector_SortKey(kps, scores, config),
                                     NumSurvivors(kps, scores, config)) :
             \E env \in {[rnd |-> rnd, order |-> order, ms |-> ms, fail |-> "none"]} :
               last' = [NoCall EXCEPT
                          !.op = "Detect", !.model = m, !.config = config,
                          !.args = <<kps, scores, RaceImage, models[m].model_ptr_>>,
                          !.result = SuperPointDetector_Detect(
                                       [models[m] EXCEPT !.loaded_ = TRUE],
                                       RaceImage, config, env)]
  /\ threads' = [threads EXCEPT ![t] = Idle]
  /\ UNCHANGED <<models, regVars, lastLoadTrue, lastOfKind>>

\* Unload() is entered.
StartUnload(t, m) ==
  /\ threads[t].at = "idle"
  /\ models[m].class = "SuperPointDetector"
  /\ threads' = [threads EXCEPT ![t] = [Idle EXCEPT !.at = "Unload:check", !.model = m]]
  /\ UNCHANGED <<models, regVars, last, lastLoadTrue, lastOfKind>>

\* if (!loaded_) return;
UnloadCheck(t) ==
  /\ threads[t].at = "Unload:check"
  /\ IF ~models[threads[t].model].loaded_
       THEN /\ Return(t, "Unload", "void", 0)
            /\ lastLoadTrue' = Noted(lastLoadTrue, {threads[t].model}, FALSE)
       ELSE /\ threads' = [threads EXCEPT ![t].at = "Unload:release"]
            /\ UNCHANGED <<last, lastLoadTrue>>
  /\ UNCHANGED <<models, regVars, lastOfKind>>

\* if (model_ptr_) model_ptr_ = nullptr;
UnloadRelease(t) ==
  /\ threads[t].at = "Unload:release"
  /\ models' = [models EXCEPT ![threads[t].model].model_ptr_ = nullptr]
  /\ threads' = [threads EXCEPT ![t].at = "Unload:flag"]
  /\ UNCHANGED <<regVars, last, lastLoadTrue, lastOfKind>>

\* loaded_ = false;
UnloadFinish(t) ==
  /\ threads[t].at = "Unload:flag"
  /\ models' = [models EXCEPT ![threads[t].model].loaded_ = FALSE]
  /\ lastLoadTrue' = Noted(lastLoadTrue, {threads[t].model}, FALSE)
  /\ Return(t, "Unload", "void", 0)
  /\ UNCHANGED <<regVars, lastOfKind>>

-----------------------------------------------------------------------------
(* Specifications *)

\* MLManager() = default, before any call; the instances of pool constructed.
InitWith(pool) ==
  /\ models = [m \in pool |-> Construct(m)]
  /\ models_ = <<>>
  /\ model_type_map_ = <<>>
  /\ default_device_ = "CPU"
  /\ cache_directory_ = ""
  /\ download_enabled_ = TRUE
  /\ last = NoCall
  /\ lastLoadTrue = [m \in pool |-> FALSE]
  /\ lastOfKind = [t \in MLModelType |-> nullptr]
  /\ threads = [t \in Threads |-> Idle]

\* The registry with a pool of instances that callers also load and unload directly.
Init == \E pool \in Pools : InitWith(pool)

Next ==
  \/ \E name \in ModelNames, model \in DOMAIN models \cup {nullptr} :
       CallRegisterModel(name, model)
  \/ \E name \in ModelNames : CallGetModel(name)
  \/ \E type \in QueriedTypes : CallGetModelOfType(type)
  \/ \E name \in ModelNames, config \in RegistryConfigs : CallLoadModel(name, config)
  \/ \E name \in ModelNames : CallUnloadModel(name)
  \/ CallUnloadAllModels
  \/ \E name \in ModelNames : CallIsModelLoaded(name)
  \/ \E device \in RequestedDevices : CallSetDefaultDevice(device)

Spec == Init /\ [][Next]_vars

\* One model instance of any class, driven directly through its own interface.
InitModel == \E m \in AllInstances \ {"sp2"} : InitWith({m})

NextModel ==
  \/ \E m \in DOMAIN models, config \in LoadConfigs : CallLoad(m, config)
  \/ \E m \in DOMAIN models : CallUnload(m)
  \/ \E m \in DOMAIN models :
       \/ \E image \in Images, config \in SuperPointConfigs :
            models[m].class = "SuperPointDetector" /\ CallDetect(m, image, config)
       \/ \E image \in SmallImages, config \in DISKConfigs :
            models[m].class = "DISKDetector" /\ CallDetect(m, image, config)
  \/ \E m \in DOMAIN models, image1 \in SmallImages, image2 \in SmallImages,
        config \in LoFTRConfigs :
       CallMatchImages(m, image1, image2, config)
  \/ \E m \in DOMAIN models, n1 \in SetSizes, d1 \in SetSizes, n2 \in SetSizes,
        d2 \in SetSizes, config \in SuperGlueConfigs :
       CallMatchSets(m, n1, d1, n2, d2, config)

SpecModel == InitModel /\ [][NextModel]_vars

\* The registry under its settings and bindings, with every read operation.
InitQuery == InitWith({"sp1", "sg1"})

NextQuery ==
  \/ \E name \in ModelNames, model \in DOMAIN models : CallRegisterModel(name, model)
  \/ \E name \in ModelNames : CallLoadModel(name, CfgPlain)
  \/ CallSetDefaultDevice("CUDA")
  \/ CallSetModelCacheDirectory("./ml_cache")
  \/ CallSetDownloadEnabled(FALSE)
  \/ \E name \in ModelNames : CallGetModel(name)
  \/ \E type \in QueriedTypes : CallGetModelOfType(type)
  \/ CallGetAvailableModels
  \/ CallGetAvailableModelTypes
  \/ \E name \in ModelNames : CallIsModelLoaded(name)
  \/ \E type \in QueriedTypes : CallIsModelTypeAvailable(type)
  \/ CallGetAvailableDevices
  \/ CallGetDefaultDevice
  \/ CallGetModelCacheDirectory
  \/ CallIsDownloadEnabled
  \/ CallPrintModelInfo

SpecQuery == InitQuery /\ [][NextQuery]_vars

\* Two threads that load one SuperPoint detector, directly or by its name.
InitLoadRace == InitWith({"sp1"})

RaceConfigs == {CfgPlain, CfgGood}

NextLoadRace ==
  \/ CallRegisterModel("d1", "sp1")
  \/ \E t \in Threads, config \in RaceConfigs : StartLoad(t, "sp1", config)
  \/ \E t \in Threads, config \in RaceConfigs : StartLoadModel(t, "d1", config)
  \/ \E t \in Threads : LoadCheck(t)
  \/ \E t \in Threads : LoadStore(t)
  \/ \E t \in Threads : LoadInitialize(t)
  \/ \E t \in Threads : LoadFinish(t)

SpecLoadRace == InitLoadRace /\ [][NextLoadRace]_vars

\* Two threads that detect with and unload one SuperPoint detector, which is
\* loaded while no call is running.
InitUnloadRace == InitWith({"sp1"})

RaceDetectConfigs ==
  {[SuperPointConfig EXCEPT !.max_keypoints = 1, !.remove_borders = FALSE],
   [SuperPointConfig EXCEPT !.max_keypoints = MaxRaw, !.remove_borders = FALSE]}

NextUnloadRace ==
  \/ (\A t \in Threads : threads[t].at = "idle") /\ CallLoad("sp1", CfgPlain)
  \/ \E t \in Threads, config \in RaceDetectConfigs : StartDetect(t, "sp1", config)
  \/ \E t \in Threads : DetectCheck(t)
  \/ \E t \in Threads : DetectRun(t)
  \/ \E t \in Threads : StartUnload(t, "sp1")
  \/ \E t \in Threads : UnloadCheck(t)
  \/ \E t \in Threads : UnloadRelease(t)
  \/ \E t \in Threads : UnloadFinish(t)

SpecUnloadRace == InitUnloadRace /\ [][NextUnloadRace]_vars

\* Two threads that register models while queries are answered.
InitRegisterRace == InitWith({"sp1", "sg1"})

NextRegisterRace ==
  \/ \E t \in Threads, name \in ModelNames, model \in DOMAIN models \cup {nullptr} :
       StartRegisterModel(t, name, model)
  \/ \E t \in Threads : FinishRegisterModel(t)
  \/ \E name \in ModelNames : CallGetModel(name)
  \/ \E type \in QueriedTypes : CallGetModelOfType(type)
  \/ \E type \in QueriedTypes : CallIsModelTypeAvailable(type)

SpecRegisterRace == InitRegisterRace /\ [][NextRegisterRace]_vars

-----------------------------------------------------------------------------
(* FilterKeypoints of both detectors as a function of its three arguments.   *)
(* A keypoint is [x, y, id]: id stands for the rest of the FeatureKeypoint   *)
(* (its affine shape), which the function copies and never reads; the inputs *)
(* carry their own index there.                                              *)

\* The longest keypoint and score vectors handed to FilterKeypoints.
MaxInputs == 3

\* On the border test's edges for margin 4 (x = 4 is inside, x = 636 is not),
\* and well inside.
FilterPoints == {[x |-> 4, y |-> 4], [x |-> 636, y |-> 10], [x |-> 10, y |-> 10]}

FilterScores == {500, 600, 700}

FilterThresholds == {5, 600}

FilterMaxKeypoints == {-1, 0, 1, 2}

\* The configuration of the class of m with the four fields FilterKeypoints reads.
FilterConfigs(m) ==
  {[base EXCEPT !.keypoint_threshold = T, !.remove_borders = rb,
                            !.max_keypoints = mk] :
     base \in {IF Construct(m).class = "DISKDetector" THEN DISKConfig
                           ELSE SuperPointConfig},
     T \in FilterThresholds, rb \in BOOLEAN, mk \in FilterMaxKeypoints}

FilterInputs ==
  UNION {{[keypoints |-> [i \in 1..n |-> [x |-> pts[i].x, y |-> pts[i].y, id |-> i]],
           scores |-> scores] :
            pts \in [1..n -> FilterPoints], scores \in [1..n -> FilterScores]} :
         n \in 0..MaxInputs}

\* FilterKeypoints(keypoints, scores, config) on the arguments held in last.
CallFilterKeypoints(m) ==
  /\ models[m].class \in {"SuperPointDetector", "DISKDetector"}
  /\ \E isSP \in {models[m].class = "SuperPointDetector"},
        keypoints \in {last.args[1]}, scores \in {last.args[2]}, config \in {last.config} :
       \E key \in {IF isSP THEN SuperPointDetector_SortKey(keypoints, scores, config)
                   ELSE DISKDetector_SortKey(keypoints, scores, config)},
          n \in {NumSurvivors(keypoints, scores, config)} :
         \E order \in SortedOrders(key, n) :
           last' = [last EXCEPT
                      !.op = "FilterKeypoints", !.model = m,
                      !.result =
                        [keypoints |->
                           IF isSP
                             THEN SuperPointDetector_FilterKeypoints(keypoints, scores,
                                                                     config, order)
                             ELSE DISKDetector_FilterKeypoints(keypoints, scores,
                                                               config, order)]]
  /\ UNCHANGED <<models, regVars, lastLoadTrue, lastOfKind, threads>>

\* One detector and one argument list of its FilterKeypoints.
InitFilter ==
  \E m \in {"sp1", "disk1"} :
    /\ models = [x \in {m} |-> Construct(m)]
    /\ models_ = <<>>
    /\ model_type_map_ = <<>>
    /\ default_device_ = "CPU"
    /\ cache_directory_ = ""
    /\ download_enabled_ = TRUE
    /\ \E input \in FilterInputs, config \in FilterConfigs(m) :
         last = [NoCall EXCEPT !.args = <<input.keypoints, input.scores>>,
                               !.config = config]
    /\ lastLoadTrue = [x \in {m} |-> FALSE]
    /\ lastOfKind = [t \in MLModelType |-> nullptr]
    /\ threads = [t \in Threads |-> Idle]

NextFilter == \E m \in DOMAIN models : CallFilterKeypoints(m)

SpecFilter == InitFilter /\ [][NextFilter]_vars

\* One model instance of any class, loaded and unloaded with configs whose
\* parameters parse, do not parse, or are unknown.
InitLoad == \E m \in AllInstances \ {"sp2"} : InitWith({m})

LoadedConfigs == {CfgPlain, CfgGood, CfgOdd, CfgBad}

NextLoad ==
  \/ \E m \in DOMAIN models, config \in LoadedConfigs : CallLoad(m, config)
  \/ \E m \in DOMAIN models : CallUnload(m)

SpecLoad == InitLoad /\ [][NextLoad]_vars

\* The images, configurations and set sizes of the Match calls: up to three
\* candidate pairs, thresholds between the candidate scores.
MatchImages == {[width |-> 5, height |-> 3], [width |-> 4, height |-> 3]}

MatchConfigs ==
  {LoFTRConfig,
   [LoFTRConfig EXCEPT !.mutual_threshold = 820, !.match_threshold = 900],
   [LoFTRConfig EXCEPT !.mutual_threshold = 900, !.match_threshold = 820],
   [LoFTRConfig EXCEPT !.use_mutual_check = FALSE, !.match_threshold = 850]}

MatchSizes == {0, 2, 3}

\* One matcher, loaded and asked to match.
InitMatch == \E m \in {"loftr1", "sg1"} : InitWith({m})

NextMatch ==
  \/ \E m \in DOMAIN models : CallLoad(m, CfgPlain)
  \/ \E m \in DOMAIN models, image1 \in MatchImages, image2 \in MatchImages,
        config \in MatchConfigs :
       CallMatchImages(m, image1, image2, config)
  \/ \E m \in DOMAIN models, n1 \in MatchSizes, d1 \in MatchSizes, n2 \in MatchSizes,
        d2 \in MatchSizes, config \in SuperGlueConfigs :
       CallMatchSets(m, n1, d1, n2, d2, config)

SpecMatch == InitMatch /\ [][NextMatch]_vars

-----------------------------------------------------------------------------
(* LoFTRMatcher::ApplyMutualCheck as a function of its three arguments *)

\* Candidate pairs over two keypoints a side, with a score each.
CandidateInputs ==
  UNION {{[matches |-> matches, scores |-> scores] :
            matches \in [1..n -> {<<0, 0>>, <<0, 1>>, <<1, 0>>, <<1, 1>>}],
            scores \in [1..n -> {d.score : d \in MatchDraws}]} :
         n \in 0..MaxCandidates}

CallApplyMutualCheck(m) ==
  /\ models[m].class = "LoFTRMatcher"
  /\ last' = [last EXCEPT
                !.op = "ApplyMutualCheck", !.model = m,
                !.result = [matches |-> LoFTRMatcher_ApplyMutualCheck(
                                          last.args[1], last.args[2], last.config)]]
  /\ UNCHANGED <<models, regVars, lastLoadTrue, lastOfKind, threads>>

\* A LoFTR matcher and one argument list of its ApplyMutualCheck.
InitMutual ==
  /\ models = [x \in {"loftr1"} |-> Construct("loftr1")]
  /\ models_ = <<>>
  /\ model_type_map_ = <<>>
  /\ default_device_ = "CPU"
  /\ cache_directory_ = ""
  /\ download_enabled_ = TRUE
  /\ \E input \in CandidateInputs,
        config \in {LoFTRConfig, [LoFTRConfig EXCEPT !.mutual_threshold = 900]} :
       last = [NoCall EXCEPT !.args = <<input.matches, input.scores>>, !.config = config]
  /\ lastLoadTrue = [x \in {"loftr1"} |-> FALSE]
  /\ lastOfKind = [t \in MLModelType |-> nullptr]
  /\ threads = [t \in Threads |-> Idle]

NextMutual == \E m \in DOMAIN models : CallApplyMutualCheck(m)

SpecMutual == InitMutual /\ [][NextMutual]_vars

-----------------------------------------------------------------------------
(* DISKDetector::NormalizeDescriptors as a function of its argument *)

\* The longest descriptor vector handed to NormalizeDescriptors.
MaxDescriptors == 3

\* Descriptors of norm 0, 0.5, 1 and 2.5, of two dimensions.
DescriptorInputs ==
  UNION {[1..n -> {[dim |-> 128, norm |-> 0], [dim |-> 128, norm |-> 500],
                   [dim |-> 128, norm |-> 1000], [dim |-> 256, norm |-> 2500]}] :
         n \in 0..MaxDescriptors}

CallNormalizeDescriptors(m) ==
  /\ models[m].class = "DISKDetector"
  /\ last' = [last EXCEPT !.op = "NormalizeDescriptors", !.model = m,
                          !.result = [descriptors |->
                                        DISKDetector_NormalizeDescriptors(last.args[1])]]
  /\ UNCHANGED <<models, regVars, lastLoadTrue, lastOfKind, threads>>

\* A DISK detector and one argument of its NormalizeDescriptors.
InitNormalize ==
  /\ models = [x \in {"disk1"} |-> Construct("disk1")]
  /\ models_ = <<>>
  /\ model_type_map_ = <<>>
  /\ default_device_ = "CPU"
  /\ cache_directory_ = ""
  /\ download_enabled_ = TRUE
  /\ \E descriptors \in DescriptorInputs : last = [NoCall EXCEPT !.args = <<descriptors>>]
  /\ lastLoadTrue = [x \in {"disk1"} |-> FALSE]
  /\ lastOfKind = [t \in MLModelType |-> nullptr]
  /\ threads = [t \in Threads |-> Idle]

NextNormalize == \E m \in DOMAIN models : CallNormalizeDescriptors(m)

SpecNormalize == InitNormalize /\ [][NextNormalize]_vars

\* Detect(image) and Match(image1, image2): the calls that leave the config
\* argument to its default, "const DISKConfig& config = {}" and
\* "const LoFTRConfig& config = {}".
CallDetectDefault(m, image) ==
  /\ models[m].class = "DISKDetector"
  /\ CallDetect(m, image, DISKConfig)

CallMatchDefault(m, image1, image2) ==
  /\ models[m].class = "LoFTRMatcher"
  /\ CallMatchImages(m, image1, image2, LoFTRConfig)

\* The configurations handed to SetConfig of the class of model m.
StoredConfigs(m) ==
  IF models[m].class = "DISKDetector" THEN DISKConfigs ELSE LoFTRConfigs

\* One DISK detector or LoFTR matcher whose stored configuration Load and
\* SetConfig change, and on which Detect and Match are only ever called
\* without the config argument.
InitDefault == \E m \in {"disk1", "loftr1"} : InitWith({m})

NextDefault ==
  \/ \E m \in DOMAIN models, config \in {CfgPlain, CfgOne} : CallLoad(m, config)
  \/ \E m \in DOMAIN models : CallUnload(m)
  \/ \E m \in DOMAIN models : \E config \in StoredConfigs(m) : CallSetConfig(m, config)
  \/ \E m \in DOMAIN models, image \in SmallImages : CallDetectDefault(m, image)
  \/ \E m \in DOMAIN models, image1 \in MatchImages, image2 \in MatchImages :
       CallMatchDefault(m, image1, image2)

SpecDefault == InitDefault /\ [][NextDefault]_vars

\* The image and configurations of SuperPointDetector::Detect here: an image
\* smaller than 640 x 480, and a threshold above the score Detect reports.
DetectImages == {[width |-> 10, height |-> 10]}

DetectConfigs ==
  {[SuperPointConfig EXCEPT !.max_keypoints = MaxRaw],
   [SuperPointConfig EXCEPT !.max_keypoints = MaxRaw, !.remove_borders = FALSE,
                            !.keypoint_threshold = 850],
   [SuperPointConfig EXCEPT !.max_keypoints = 1, !.remove_borders = FALSE,
                            !.use_nms = FALSE]}

\* One detector, loaded and asked to detect.
InitDetect == \E m \in {"sp1", "disk1"} : InitWith({m})

NextDetect ==
  \/ \E m \in DOMAIN models : CallLoad(m, CfgPlain)
  \/ \E m \in DOMAIN models :
       \/ \E image \in DetectImages, config \in DetectConfigs :
            models[m].class = "SuperPointDetector" /\ CallDetect(m, image, config)
       \/ \E image \in SmallImages, config \in DISKConfigs :
            models[m].class = "DISKDetector" /\ CallDetect(m, image, config)

SpecDetect == InitDetect /\ [][NextDetect]_vars

-----------------------------------------------------------------------------
(* Properties of the model lifecycle, checked under SpecModel *)

\* C1: every model variant is unloaded at construction; after any sequence of
\* Load and Unload calls IsLoaded() is true exactly when the most recent of
\* them was a Load that returned true; Unload on an unloaded model changes no
\* state, however often it is repeated.
C1_LoadedIffLastLoadReturnedTrue ==
  /\ [](\A m \in DOMAIN models : IsLoaded(models[m]) = lastLoadTrue[m])
  /\ [][(last'.op = "Unload" /\ ~IsLoaded(models[last'.model])) => models' = models]_vars

\* An Unload has just taken a model out of the loaded state it was put in by a
\* Load with the ONNX config.
C1_Witness ==
  /\ last.op = "Unload"
  /\ models[last.model].backend_ = "ONNX"
  /\ ~IsLoaded(models[last.model])
  /\ ~lastLoadTrue[last.model]

\* C2: two Load calls in succession on the same model both return true, the
\* second without running InitializeModel and without changing the model
\* (backend, device, stored configuration), whatever its config.
C2_LoadTwice ==
  [][(last.op = "Load" /\ last'.op = "Load" /\ last'.model = last.model)
       => /\ last.ret = "true"
          /\ last'.ret = "true"
          /\ last'.inits = 0
          /\ models' = models]_vars

\* The empty result of the class of model m.
EmptyResult(m) ==
  CASE models[m].class = "SuperPointDetector" -> SuperPointResult
    [] models[m].class = "DISKDetector"       -> DISKResult
    [] models[m].class = "LoFTRMatcher"       -> LoFTRResult
    [] models[m].class = "SuperGlueMatcher"   -> SuperGlueResult

\* C3: Detect and Match on an unloaded model return the empty result (no
\* keypoints, descriptors, scores or matches, processing time 0, match ratio
\* 0), raise nothing and leave the model as it was.
C3_UnloadedCallIsEmpty ==
  [][(last'.op \in {"Detect", "Match"} /\ ~models[last'.model].loaded_)
       => /\ last'.result = EmptyResult(last'.model)
          /\ last'.ret # "throw"
          /\ models' = models]_vars

\* Detect was called with a config that asks for keypoints, on a model that a
\* failed Load left unloaded.
C3_Witness ==
  /\ last.op = "Detect"
  /\ last.config.max_keypoints = MaxRaw
  /\ ~models[last.model].loaded_
  /\ models[last.model].backend_ = "TENSORFLOW"
  /\ last.result = EmptyResult(last.model)

-----------------------------------------------------------------------------
(* Properties of the registry, checked under Spec *)

\* How often name occurs in GetAvailableModels().
Occurrences(names, name) ==
  Cardinality({i \in 1..Len(MLManager_GetAvailableModels(names)) :
                 MLManager_GetAvailableModels(names)[i] = name})

\* C4: RegisterModel(n, B) on a name n bound to another model A rebinds it:
\* GetModel(n) is B afterwards, and n occurs once in GetAvailableModels().
C4_RebindReplaces ==
  [][(/\ last'.op = "RegisterModel"
      /\ last'.model # nullptr
      /\ MLManager_GetModel(models_, last'.name) \notin {nullptr, last'.model})
       => /\ MLManager_GetModel(models_', last'.name) = last'.model
          /\ Occurrences(models_', last'.name) = 1]_vars

\* "d1" was bound to the SuperPoint detector (the kind table still says so) and
\* has just been rebound to the SuperGlue matcher.
C4_Witness ==
  /\ last.op = "RegisterModel"
  /\ last.name = "d1"
  /\ last.model = "sg1"
  /\ \E i \in 1..Len(model_type_map_) :
       model_type_map_[i] = [type |-> "SUPERPONT_DETECTOR", name |-> "d1"]
  /\ MLManager_GetModel(models_, "d1") = "sg1"

\* C5: RegisterModel with an empty model returns false and leaves both tables
\* as they were; with a model it returns true, for every name, and GetModel of
\* that name then returns the model.
C5_RegisterModelResult ==
  [][last'.op = "RegisterModel"
       => IF last'.model = nullptr
            THEN /\ last'.ret = "false"
                 /\ models_' = models_
                 /\ model_type_map_' = model_type_map_
            ELSE /\ last'.ret = "true"
                 /\ MLManager_GetModel(models_', last'.name) = last'.model]_vars

\* An empty model was refused while the tables held a binding.
C5_Witness ==
  /\ last.op = "RegisterModel"
  /\ last.model = nullptr
  /\ last.ret = "false"
  /\ Len(models_) = 2
  /\ Len(model_type_map_) >= 1

\* C6: GetModel(kind) returns the model of the most recent RegisterModel call
\* whose model had that kind.
C6_LastOfKindWins ==
  last.op = "GetModelOfType" => last.ret = lastOfKind[last.name]

\* Is the key of a lookup call (a name, or a kind for GetModelOfType) without
\* an entry in the table the call searches?
Unbound(op, key) ==
  IF op = "GetModelOfType" THEN FindFrom(model_type_map_, TypeOf, key, 1) = 0
  ELSE FindFrom(models_, NameOf, key, 1) = 0

\* What each lookup call returns when it finds no instance.
NoInstance(op) == IF op \in {"GetModel", "GetModelOfType"} THEN nullptr ELSE "false"

\* C7: on a name or kind that is not bound, GetModel returns no instance and
\* LoadModel, UnloadModel and IsModelLoaded return false; none of them throws,
\* creates a binding or changes any state.
C7_UnboundLookups ==
  [][(/\ last'.op \in {"GetModel", "GetModelOfType", "LoadModel", "UnloadModel",
                       "IsModelLoaded"}
      /\ Unbound(last'.op, last'.name))
       => /\ last'.ret = NoInstance(last'.op)
          /\ models' = models
          /\ regVars' = regVars
          /\ lastLoadTrue' = lastLoadTrue]_vars

\* UnloadModel was refused for a name without a binding while the other name
\* was bound to a loaded model.
C7_Witness ==
  /\ last.op = "UnloadModel"
  /\ last.ret = "false"
  /\ Unbound("UnloadModel", last.name)
  /\ \E i \in 1..Len(models_) : models[models_[i].model].loaded_

\* Is name bound in models_?
Bound(name) == FindFrom(models_, NameOf, name, 1) # 0

\* C8: for a name n bound to an unloaded model LoadModel(n, cfg) returns true
\* and IsModelLoaded(n) holds afterwards; UnloadModel(n) on a loaded model
\* returns true and IsModelLoaded(n) is false afterwards; LoadModel on a loaded
\* and UnloadModel on an unloaded model return true and leave the load state.
C8_LoadUnloadModel ==
  [][(last'.op \in {"LoadModel", "UnloadModel"} /\ Bound(last'.name))
       => /\ last'.ret = "true"
          /\ MLManager_IsModelLoaded(models', models_', last'.name)
               = (last'.op = "LoadModel")
          /\ (MLManager_IsModelLoaded(models, models_, last'.name)
                = (last'.op = "LoadModel")) => models' = models]_vars

\* C9: after UnloadAllModels() IsModelLoaded(n) is false for every registered
\* name n, and the bindings of both tables are as before.
C9_UnloadAllModels ==
  [][last'.op = "UnloadAllModels"
       => /\ \A i \in 1..Len(models_') :
               ~MLManager_IsModelLoaded(models', models_', models_'[i].name)
          /\ models_' = models_
          /\ model_type_map_' = model_type_map_]_vars

\* UnloadAllModels has unloaded two models bound under two names.
C9_Witness ==
  /\ last.op = "UnloadAllModels"
  /\ Len(models_) = 2
  /\ last.result.unloaded = {models_[1].model, models_[2].model}
  /\ Cardinality(last.result.unloaded) = 2

\* The devices of GetAvailableDevices().
AvailableDevices ==
  {MLManager_GetAvailableDevices[i] : i \in 1..Len(MLManager_GetAvailableDevices)}

\* C10: GetAvailableDevices() always contains CPU, GetDefaultDevice() is always
\* one of its devices, and the default changes only in a SetDefaultDevice(d)
\* with d among them, to d.
C10_DefaultDeviceAvailable ==
  /\ []("CPU" \in AvailableDevices)
  /\ [](MLManager_GetDefaultDevice(default_device_) \in AvailableDevices)
  /\ [][default_device_' # default_device_
          => /\ last'.op = "SetDefaultDevice"
             /\ last'.name \in AvailableDevices
             /\ default_device_' = last'.name]_vars

\* OPENCL was asked for and refused: the default is still the CUDA set before.
C10_Witness ==
  /\ last.op = "SetDefaultDevice"
  /\ last.name = "OPENCL"
  /\ MLManager_GetDefaultDevice(default_device_) = "CUDA"

-----------------------------------------------------------------------------
(* Properties of the read operations, checked under SpecQuery *)

ReadOps ==
  {"GetModel", "GetModelOfType", "GetAvailableModels", "GetAvailableModelTypes",
   "IsModelLoaded", "IsModelTypeAvailable", "GetAvailableDevices", "GetDefaultDevice",
   "GetModelCacheDirectory", "IsDownloadEnabled", "PrintModelInfo"}

\* The elements of a sequence.
Range(seq) == {seq[i] : i \in 1..Len(seq)}

\* C11: the read operations leave the binding tables, every model's state, the
\* default device, the cache directory and the download flag unchanged, and
\* GetAvailableModels returns exactly the currently bound names, each once.
C11_ReadsChangeNothing ==
  [][last'.op \in ReadOps
       => /\ models' = models
          /\ regVars' = regVars
          /\ last'.op = "GetAvailableModels"
               => /\ Range(last'.result.value)
                       = {n \in ModelNames : MLManager_GetModel(models_, n) # nullptr}
                  /\ Len(last'.result.value) = Cardinality(Range(last'.result.value))]_vars

\* GetAvailableModels answered with two names, under settings that are no
\* longer the initial ones and with a loaded model.
C11_Witness ==
  /\ last.op = "GetAvailableModels"
  /\ Range(last.result.value) = ModelNames
  /\ default_device_ = "CUDA"
  /\ cache_directory_ # ""
  /\ ~download_enabled_
  /\ \E i \in 1..Len(models_) : models[models_[i].model].loaded_

-----------------------------------------------------------------------------
(* Properties of concurrent callers *)

\* C12: when two callers run Load concurrently on the same unloaded model the
\* backend is initialized at most once: InitializeModel never runs on a model
\* whose backend another Load has already initialized.
C12_InitializedOnce ==
  [][\A t \in Threads :
       (threads[t].at = "Load:init" /\ threads'[t].at # "Load:init")
         => models[threads[t].model].model_ptr_ = nullptr]_vars

\* C13: registry mutations are serialized, and a query never observes the
\* tables between the two writes of RegisterModel: a model that GetModel(name)
\* returns has its kind in the kind table.
C13_QueriesSeeWholeMutations ==
  /\ [](Cardinality({t \in Threads : threads[t].at = "RegisterModel:type"}) <= 1)
  /\ [][(last'.op = "GetModel" /\ last'.ret # nullptr)
          => MLManager_IsModelTypeAvailable(model_type_map_, GetType(models[last'.ret]))]_vars

-----------------------------------------------------------------------------
(* Properties of keypoint filtering, checked under SpecFilter *)

Filtered == last.op = "FilterKeypoints"

\* The ids of the keypoints FilterKeypoints returned.
Returned == {last.result.keypoints[i].id : i \in 1..Len(last.result.keypoints)}

\* C14: every keypoint FilterKeypoints returns (SuperPoint and DISK) is an input
\* keypoint whose own input score is at least keypoint_threshold; an input whose
\* score equals the threshold is kept (when neither the border test nor
\* max_keypoints drops it) and one strictly below is discarded.
C14_ConfidenceFilter ==
  Filtered =>
    LET keypoints == last.args[1]
        scores    == last.args[2]
        T         == last.config.keypoint_threshold
    IN  /\ \A i \in 1..Len(last.result.keypoints) :
             LET kp == last.result.keypoints[i]
             IN  /\ kp.id \in 1..Len(keypoints)
                 /\ keypoints[kp.id] = kp
                 /\ scores[kp.id] >= T
        /\ \A j \in 1..Len(keypoints) : scores[j] < T => j \notin Returned
        /\ (~last.config.remove_borders /\ last.config.max_keypoints >= Len(keypoints))
             => \A j \in 1..Len(keypoints) : scores[j] = T => j \in Returned

C14_Witness ==
  /\ Filtered
  /\ models[last.model].class = "DISKDetector"
  /\ \E j, k \in 1..Len(last.args[1]) :
       /\ last.args[2][j] = last.config.keypoint_threshold /\ j \in Returned
       /\ last.args[2][k] < last.config.keypoint_threshold /\ k \notin Returned

\* The inputs that pass the threshold and border tests of the call in last.
Survivors ==
  {j \in 1..Len(last.args[1]) : Survives(last.args[1], last.args[2], last.config, j)}

C18_TopKDescending ==
  (Filtered /\ models[last.model].class = "SuperPointDetector") =>
    LET out    == last.result.keypoints
        scores == last.args[2]
    IN  /\ Returned \subseteq Survivors
        /\ \A i, k \in 1..Len(out) : i < k => scores[out[i].id] >= scores[out[k].id]
        /\ \A d \in Survivors \ Returned : \A r \in Returned : scores[d] <= scores[r]

C18_Witness ==
  /\ Filtered
  /\ models[last.model].class = "SuperPointDetector"
  /\ last.config.max_keypoints = 2
  /\ Cardinality(Survivors) = 3
  /\ Len(last.result.keypoints) = 2
  /\ last.args[2][last.result.keypoints[1].id] > last.args[2][last.result.keypoints[2].id]
  /\ last.result.keypoints[1].id > last.result.keypoints[2].id

-----------------------------------------------------------------------------
(* Properties of Detect, checked under SpecDetect *)

Detected == last.op = "Detect"

\* C15: in every Detect result of a loaded detector, scores[i] is the confidence
\* of keypoints[i] (the score that keypoint had when it was filtered) and is at
\* least config.keypoint_threshold, whatever the threshold.
C15_ScoresAreConfidences ==
  Detected =>
    \A i \in 1..Len(last.result.scores) :
      /\ last.result.scores[i] >= last.config.keypoint_threshold
      /\ \E j \in 1..Len(last.args[1]) :
           /\ last.args[1][j].x = last.result.keypoints[i].x
           /\ last.args[1][j].y = last.result.keypoints[i].y
           /\ last.args[2][j] = last.result.scores[i]

\* C16: with remove_borders set, every keypoint Detect retains lies at least
\* border_margin inside the image that was passed to Detect:
\* M <= x < W - M and M <= y < H - M for that image's width W and height H.
C16_BorderOfActualImage ==
  (Detected /\ last.config.remove_borders) =>
    \A i \in 1..Len(last.result.keypoints) :
      LET kp    == last.result.keypoints[i]
          M     == last.config.border_margin
          image == last.args[3]
      IN  /\ M <= kp.x /\ kp.x < image.width - M
          /\ M <= kp.y /\ kp.y < image.height - M

\* C19: when use_nms is set and nms_radius > 0, every two keypoints of a Detect
\* result (SuperPoint and DISK) are at least nms_radius apart.  Coordinates are
\* whole pixels and nms_radius is in thousandths of a pixel.
C19_SuppressedWithinRadius ==
  (Detected /\ last.config.use_nms /\ last.config.nms_radius > 0) =>
    \A i, k \in 1..Len(last.result.keypoints) :
      i # k =>
        LET dx == last.result.keypoints[i].x - last.result.keypoints[k].x
            dy == last.result.keypoints[i].y - last.result.keypoints[k].y
        IN  (dx * dx + dy * dy) * 1000000 >= last.config.nms_radius * last.config.nms_radius

-----------------------------------------------------------------------------
(* Properties of descriptor normalization, checked under SpecNormalize *)

\* C20: DISKDetector::NormalizeDescriptors returns as many descriptors as it
\* was given, in the same order: a descriptor of strictly positive norm comes
\* back with unit norm, a descriptor of zero norm comes back unchanged at the
\* same index, and an empty input gives an empty output.
C20_NormalizeDescriptors ==
  last.op = "NormalizeDescriptors" =>
    LET input  == last.args[1]
        output == last.result.descriptors
    IN  /\ Len(output) = Len(input)
        /\ \A i \in 1..Len(input) :
             /\ output[i].dim = input[i].dim
             /\ input[i].norm > 0 => output[i].norm = 1000
             /\ input[i].norm = 0 => output[i] = input[i]

C20_Witness ==
  /\ last.op = "NormalizeDescriptors"
  /\ Len(last.args[1]) = MaxDescriptors
  /\ last.args[1][1].norm = 2500
  /\ last.args[1][2].norm = 0
  /\ last.args[1][3].norm = 500
  /\ last.result.descriptors[2].norm = 0
  /\ last.result.descriptors[3].norm = 1000

-----------------------------------------------------------------------------
(* Properties of matching, checked under SpecMutual and SpecMatch *)

MatchedImages == last.op = "Match" /\ models[last.model].class = "LoFTRMatcher"

CandidateScore(c) == last.args[3][c + 1]

\* C22: every pair in a Match result has its own candidate score at or above
\* match_threshold (so every candidate below it is dropped), with or without
\* the mutual check and whatever the two thresholds are.
C22_MatchesReachThreshold ==
  MatchedImages =>
    \A k \in 1..Len(last.result.matches) :
      CandidateScore(last.result.matches[k][1]) >= last.config.match_threshold

\* C23: in every Match result, match_scores is parallel to matches: both are
\* num_matches long and match_scores[k] is the score the candidate pair
\* matches[k] had, also after the mutual check removed pairs.
C23_ScoresParallelToMatches ==
  last.op = "Match" =>
    /\ Len(last.result.match_scores) = Len(last.result.matches)
    /\ last.result.num_matches = Len(last.result.matches)
    /\ MatchedImages =>
         \A k \in 1..Len(last.result.matches) :
           k <= Len(last.result.match_scores)
             => last.result.match_scores[k] = CandidateScore(last.result.matches[k][1])

\* The size of keypoint set A of the Match call in last: the dense keypoints of
\* the first image for LoFTR, the first argument for SuperGlue.
SizeOfSetA ==
  IF MatchedImages THEN Len(last.result.keypoints1) ELSE last.args[1]

\* C24: the match_ratio of a Match result (LoFTR and SuperGlue) is the number of
\* retained pairs divided by the size of keypoint set A, and 0 when A is empty.
\* Ratios are in thousandths.
C24_MatchRatio ==
  last.op = "Match" =>
    last.result.match_ratio =
      IF SizeOfSetA > 0 THEN (Len(last.result.matches) * 1000) \div SizeOfSetA ELSE 0

SizeOfSetB ==
  IF MatchedImages THEN Len(last.result.keypoints2) ELSE last.args[3]

\* C25: every pair (a, b) in a Match result references valid positions,
\* 0 <= a < len(A) and 0 <= b < len(B), and the result holds no more than
\* min(len(A), len(B)) pairs, whatever the sizes of the two sets.
C25_PairsReferenceValidPositions ==
  last.op = "Match" =>
    /\ \A k \in 1..Len(last.result.matches) :
         /\ 0 <= last.result.matches[k][1] /\ last.result.matches[k][1] < SizeOfSetA
         /\ 0 <= last.result.matches[k][2] /\ last.result.matches[k][2] < SizeOfSetB
    /\ Len(last.result.matches) <= Min(SizeOfSetA, SizeOfSetB)

C25_Witness ==
  /\ MatchedImages
  /\ SizeOfSetA = 3
  /\ SizeOfSetB = 2
  /\ Len(last.result.matches) = 2

\* C26: on a loaded SuperGlue matcher, Match with an empty keypoint or
\* descriptor set on either side returns the empty result (no pairs, match
\* ratio 0), raises nothing and leaves the model loaded and unchanged.
C26_EmptySetsGiveEmptyResult ==
  [][(/\ last'.op = "Match"
      /\ models[last'.model].class = "SuperGlueMatcher"
      /\ models[last'.model].loaded_
      /\ \E a \in 1..4 : last'.args[a] = 0)
       => /\ last'.result = SuperGlueResult
          /\ last'.ret # "throw"
          /\ models' = models
          /\ IsLoaded(models'[last'.model])]_vars

C26_Witness ==
  /\ last.op = "Match"
  /\ models[last.model].class = "SuperGlueMatcher"
  /\ models[last.model].loaded_
  /\ last.args = <<3, 0, 2, 2>>
  /\ last.result = SuperGlueResult

-----------------------------------------------------------------------------
(* Properties of Detect results, checked under SpecDetect *)

\* C27: in every result of SuperPointDetector::Detect and DISKDetector::Detect
\* with compute_descriptors enabled, keypoints, descriptors and scores are
\* equally long, on a loaded and on an unloaded detector alike.
C27_ParallelDetectionVectors ==
  (Detected /\ last.config.compute_descriptors) =>
    /\ Len(last.result.keypoints) = Len(last.result.descriptors)
    /\ Len(last.result.keypoints) = Len(last.result.scores)

-----------------------------------------------------------------------------
(* Properties of Load and its config, checked under SpecLoad *)

\* The Load call recorded in last' ran on model m, which was unloaded when the
\* call began, and returned true.
LoadSucceeded(m) ==
  /\ last'.op = "Load" /\ last'.model = m
  /\ ~IsLoaded(models[m])
  /\ last'.ret = "true"

\* C28: for every model variant, after Load(config) succeeds on an unloaded
\* model, GetBackend() is config.backend and GetDevice() is config.device.
C28_BackendAndDeviceFromConfig ==
  [][\A m \in DOMAIN models :
       LoadSucceeded(m)
         => /\ GetBackend(models'[m]) = last'.config.backend
            /\ GetDevice(models'[m]) = last'.config.device]_vars

\* The value parameter key carries in the config of the call in last', parsed
\* as an int or as a float (thousandths); the empty set when key is not given.
GivenInt(key) ==
  {StoI(last'.config.parameters[i][2]).val :
     i \in {k \in 1..Len(last'.config.parameters) : last'.config.parameters[k][1] = key}}

GivenFloat(key) ==
  {StoF(last'.config.parameters[i][2]).val :
     i \in {k \in 1..Len(last'.config.parameters) : last'.config.parameters[k][1] = key}}

GivenKeys == {last'.config.parameters[i][1] : i \in 1..Len(last'.config.parameters)}

IsDetector(self) == self.class \in {"SuperPointDetector", "DISKDetector"}

\* C29: for every model variant, a Load that succeeds on an unloaded model
\* stores the recognized parameters in the configuration GetConfig() returns
\* (max_keypoints and keypoint_threshold for detectors, max_keypoints and
\* match_threshold for matchers); a key that names no configuration field
\* changes nothing, and the fields no key names keep their values.
C29_ParametersApplied ==
  [][\A m \in DOMAIN models :
       LoadSucceeded(m)
         => /\ \A v \in GivenInt("max_keypoints") : GetConfig(models'[m]).max_keypoints = v
            /\ IsDetector(models[m])
                 => \A v \in GivenFloat("keypoint_threshold") :
                      GetConfig(models'[m]).keypoint_threshold = v
            /\ ~IsDetector(models[m])
                 => \A v \in GivenFloat("match_threshold") :
                      GetConfig(models'[m]).match_threshold = v
            /\ \A f \in DOMAIN GetConfig(models[m]) \ GivenKeys :
                 GetConfig(models'[m])[f] = GetConfig(models[m])[f]]_vars

\* C30: no exception crosses the Load boundary: whatever the MLModelConfig,
\* also one whose recognized parameters cannot be parsed as numbers, Load and
\* MLManager::LoadModel return true or false.
C30_LoadNeverThrows ==
  last.op \in {"Load", "LoadModel"} => last.ret \in {"true", "false"}

-----------------------------------------------------------------------------
(* Properties of the failure path of Detect and Match, checked under SpecDetect *)

\* C31: when an exception is thrown at any step of Detect or Match after the
\* loaded check, the call returns the completely empty result with processing
\* time 0: nothing computed before the failure remains in it.
C31_FailureGivesEmptyResult ==
  (last.op \in {"Detect", "Match"} /\ last.fail # "none")
    => last.result = EmptyResult(last.model)

-----------------------------------------------------------------------------
(* Properties of the top-K step of FilterKeypoints, checked under SpecFilter *)

\* C32: DISKDetector::FilterKeypoints ranks each survivor by its own score:
\* also when the threshold or border filter removed some input keypoint, the
\* result lists survivors in descending order of their scores and no discarded
\* survivor has a strictly higher score than a retained one.
C32_DISKRanksSurvivorsByOwnScore ==
  (Filtered /\ models[last.model].class = "DISKDetector"
            /\ Survivors # 1..Len(last.args[1])) =>
    LET out    == last.result.keypoints
        scores == last.args[2]
    IN  /\ Returned \subseteq Survivors
        /\ \A i, k \in 1..Len(out) : i < k => scores[out[i].id] >= scores[out[k].id]
        /\ \A d \in Survivors \ Returned : \A r \in Returned : scores[d] <= scores[r]

\* C33: among survivors with equal scores FilterKeypoints (SuperPoint and DISK)
\* orders and selects by original input index: of two returned keypoints with
\* equal scores the one of the lower input index comes first, and no discarded
\* survivor has the score of a retained one of a higher input index.
C33_TiesByOriginalIndex ==
  Filtered =>
    LET out    == last.result.keypoints
        scores == last.args[2]
    IN  /\ \A i, k \in 1..Len(out) :
             (i < k /\ scores[out[i].id] = scores[out[k].id]) => out[i].id < out[k].id
        /\ \A d \in Survivors \ Returned : \A r \in Returned :
             scores[d] = scores[r] => r < d

-----------------------------------------------------------------------------
(* Properties of the registry tables, checked under Spec *)

\* C34: after any sequence of RegisterModel calls, also one that binds an
\* existing name to a model of another kind, an instance that GetModel(kind)
\* returns has GetType() = kind.
C34_GetModelOfKindHasThatKind ==
  (last.op = "GetModelOfType" /\ last.ret # nullptr)
    => GetType(models[last.ret]) = last.name

\* C35: in every reachable state every model stored in the name -> model table
\* is non-empty, every name stored in the kind -> name table is bound in the
\* name -> model table, and so IsModelTypeAvailable(kind) is true exactly when
\* GetModel(kind) returns an instance.
C35_RegistryWellFormed ==
  /\ \A i \in 1..Len(models_) : models_[i].model \in DOMAIN models
  /\ \A i \in 1..Len(model_type_map_) :
       FindFrom(models_, NameOf, model_type_map_[i].name, 1) # 0
  /\ \A type \in MLModelType :
       MLManager_IsModelTypeAvailable(model_type_map_, type)
         = (MLManager_GetModelOfType(models_, model_type_map_, type) # nullptr)

\* Both names are bound and two kinds are mapped, one kind is not, and the
\* registry has just refused an empty model.
C35_Witness ==
  /\ last.op = "RegisterModel" /\ last.model = nullptr
  /\ Len(models_) = 2 /\ Len(model_type_map_) = 2
  /\ MLManager_IsModelTypeAvailable(model_type_map_, "SUPERGLUE_MATCHER")
  /\ ~MLManager_IsModelTypeAvailable(model_type_map_, "R2D2_DETECTOR")

\* The instances that some name of the name -> model table is bound to.
BoundModels == {models_[i].model : i \in 1..Len(models_)}

\* C36: RegisterModel changes the load state of no model, neither of the model
\* it registers nor of one whose binding it overwrites; a loaded model that no
\* name is bound to any more stays loaded through UnloadModel and
\* UnloadAllModels.
C36_RegisterModelKeepsLoadState ==
  [][/\ last'.op = "RegisterModel"
          => \A m \in DOMAIN models : IsLoaded(models'[m]) = IsLoaded(models[m])
     /\ last'.op \in {"UnloadModel", "UnloadAllModels"}
          => \A m \in DOMAIN models \ BoundModels :
               IsLoaded(models[m]) => IsLoaded(models'[m])]_vars

\* UnloadAllModels has unloaded a model while a loaded model, whose binding a
\* RegisterModel call overwrote, is still loaded.
C36_Witness ==
  /\ last.op = "UnloadAllModels"
  /\ last.result.unloaded # {}
  /\ \E m \in DOMAIN models \ BoundModels : IsLoaded(models[m])

-----------------------------------------------------------------------------
(* Properties of the state a Load or Unload leaves, checked under SpecLoad *)

\* C37: for SuperPointDetector, DISKDetector and LoFTRMatcher, after any
\* sequence of Load and Unload calls IsLoaded() is true if and only if
\* model_ptr_ is non-null: an Unload of a loaded model releases the handle and
\* no unloaded model holds one.
C37_HandleHeldIffLoaded ==
  \A m \in DOMAIN models :
    models[m].class \in {"SuperPointDetector", "DISKDetector", "LoFTRMatcher"}
      => (IsLoaded(models[m]) <=> models[m].model_ptr_ # nullptr)

\* A SuperPoint detector that Load(CfgGood) had loaded has been unloaded: the
\* backend of that Load is still stored, the handle is not.
C37_Witness ==
  /\ last.op = "Unload"
  /\ models[last.model].class = "SuperPointDetector"
  /\ GetBackend(models[last.model]) = CfgGood.backend
  /\ ~IsLoaded(models[last.model])
  /\ models[last.model].model_ptr_ = nullptr

\* C38: a Load call that does not leave the model loaded (initialization
\* failed, or a parameter value could not be parsed part-way through the
\* parameter loop) leaves the model's backend, device and stored configuration
\* as they were before the call.
C38_FailedLoadChangesNothing ==
  [][\A m \in DOMAIN models :
       (last'.op = "Load" /\ last'.model = m /\ ~IsLoaded(models'[m]))
         => /\ GetBackend(models'[m]) = GetBackend(models[m])
            /\ GetDevice(models'[m]) = GetDevice(models[m])
            /\ GetConfig(models'[m]) = GetConfig(models[m])]_vars

-----------------------------------------------------------------------------
(* Properties of calls without the config argument, checked under SpecDefault *)

\* The keypoints a Detect result lists, or the keypoints of the first image in
\* a Match result.
ResultKeypoints ==
  IF last.op = "Detect" THEN last.result.keypoints ELSE last.result.keypoints1

\* C39: Detect and Match called without the config argument run with the
\* model's stored configuration, the one SetConfig and the parameters of Load
\* have set: the configuration the call reads is GetConfig(), and a stored
\* max_keypoints bounds the keypoints of the result.
C39_CallsUseStoredConfig ==
  last.op \in {"Detect", "Match"} =>
    /\ last.config = GetConfig(models[last.model])
    /\ GetConfig(models[last.model]).max_keypoints >= 0
         => Len(ResultKeypoints) <= GetConfig(models[last.model]).max_keypoints

-----------------------------------------------------------------------------
(* Properties of Unload concurrent with Detect, checked under SpecUnloadRace *)

\* C40: when Unload runs concurrently with a Detect on the same model, the
\* Detect returns the empty not-loaded result or completes entirely while the
\* model is loaded: the steps of Detect that follow its loaded check never run
\* after the backend handle has been released.
C40_DetectNeverRunsAfterRelease ==
  [][\A t \in Threads :
       (threads[t].at = "Detect:run" /\ threads'[t].at # "Detect:run")
         => /\ models[threads[t].model].model_ptr_ # nullptr
            /\ IsLoaded(models[threads[t].model])]_vars

====
